---- MODULE Spec2Model ----
(***************************************************************************)
(* State-machine model of the WI -> Camtrap-DP conversion pipeline,        *)
(* Modulo2_WI2CamtrapDP/camtrapdp/processor.py (process_zip and the        *)
(* helpers it calls).  One run of process_zip is one behaviour: the        *)
(* variable pc is the position inside process_zip, the input tables are    *)
(* drawn in the initial state, and every stage of the function is one      *)
(* action.                                                                 *)
(***************************************************************************)
EXTENDS Integers, Sequences, FiniteSets, TLC

\* ------------------------------------------------------------------------
\* Bounds of the model
\* ------------------------------------------------------------------------
MaxDeploys == 2
MaxImages == 3
MaxGateRows == 10
MaxNameLen == 3

\* ------------------------------------------------------------------------
\* Python str operations, computed character by character
\* ------------------------------------------------------------------------
\* The characters of the model's strings, in code-point order.
Alphabet == " -./0123456789ABCDEFGHIJKLMNOPQRSTUVWXYZ_abcdefghijklmnopqrstuvwxyz"
FirstUpper == 15
LastUpper == 40
CaseShift == 27

CharAt(s, i) == SubSeq(s, i, i)
Chars == {CharAt(Alphabet, i) : i \in 1..Len(Alphabet)}
\* ord(c), counted inside the alphabet.
Code == [c \in Chars |-> CHOOSE i \in 1..Len(Alphabet) : CharAt(Alphabet, i) = c]
IsUpperCode(n) == n >= FirstUpper /\ n <= LastUpper
IsLowerCode(n) == n >= FirstUpper + CaseShift /\ n <= LastUpper + CaseShift

LowerChar == [c \in Chars |-> IF IsUpperCode(Code[c]) THEN CharAt(Alphabet, Code[c] + CaseShift) ELSE c]
UpperChar == [c \in Chars |-> IF IsLowerCode(Code[c]) THEN CharAt(Alphabet, Code[c] - CaseShift) ELSE c]

RECURSIVE Lower(_)
Lower(s) == IF s = "" THEN "" ELSE LowerChar[CharAt(s, 1)] \o Lower(SubSeq(s, 2, Len(s)))

RECURSIVE LStrip(_)
LStrip(s) == IF s # "" /\ CharAt(s, 1) = " " THEN LStrip(SubSeq(s, 2, Len(s))) ELSE s

RECURSIVE RStrip(_)
RStrip(s) == IF s # "" /\ CharAt(s, Len(s)) = " " THEN RStrip(SubSeq(s, 1, Len(s) - 1)) ELSE s

Strip(s) == RStrip(LStrip(s))

Capitalize(s) == IF s = "" THEN "" ELSE UpperChar[CharAt(s, 1)] \o Lower(SubSeq(s, 2, Len(s)))

RECURSIVE HasSpaceFrom(_, _)
HasSpaceFrom(s, i) == i <= Len(s) /\ (CharAt(s, i) = " " \/ HasSpaceFrom(s, i + 1))
HasSpace(s) == HasSpaceFrom(s, 1)

RECURSIVE StrLessFrom(_, _, _)
StrLessFrom(a, b, i) ==
    IF i > Len(a) THEN i <= Len(b)
    ELSE IF i > Len(b) THEN FALSE
    ELSE IF CharAt(a, i) = CharAt(b, i) THEN StrLessFrom(a, b, i + 1)
    ELSE Code[CharAt(a, i)] < Code[CharAt(b, i)]
StrLess(a, b) == StrLessFrom(a, b, 1)

\* f"{n:02d}"
Pad2(n) == IF n < 10 THEN "0" \o ToString(n) ELSE ToString(n)

\* ------------------------------------------------------------------------
\* Cells
\* ------------------------------------------------------------------------
\* A missing cell of a text column (NaN after read_csv, pd.NA when derived).
NA == "<NA>"
\* str(value) of a text cell: str(float('nan')) is 'nan'.
PyStr(v) == IF v = NA THEN "nan" ELSE v
FillNa(v) == IF v = NA THEN "" ELSE v

\* A cell of a numeric source column: a number, a missing cell, or text
\* that is no number.
Num(n) == [k |-> "num", v |-> n]
NaNCell == [k |-> "nan", v |-> 0]
TextCell == [k |-> "text", v |-> 0]

\* A date/time cell of a source table.  t counts hours.
\*   na      missing cell (NaN)
\*   blank   a string of spaces only
\*   garbage text that no parser accepts
\*   dmy     naive local time written as %d/%m/%Y %H:%M
\*   iso     naive local time in a form only the general parser accepts
\*   aware   time with an explicit UTC offset; t is the UTC instant
TsNA == [k |-> "na", t |-> 0]
TsBlank == [k |-> "blank", t |-> 0]
TsGarbage == [k |-> "garbage", t |-> 0]
TsDmy(t) == [k |-> "dmy", t |-> t]
TsIso(t) == [k |-> "iso", t |-> t]
TsAware(t) == [k |-> "aware", t |-> t]

\* The result of to_iso_utc: pd.NA or the text YYYY-MM-DDTHH:MM:SSZ of a UTC
\* instant (texts of that form compare like their instants).
NaT == [k |-> "na", t |-> 0]
Utc(t) == [k |-> "utc", t |-> t]

\* UTC offsets (hours) of the zones of the model; any other zone name makes
\* tz_localize raise.
TzOffset(tz) == CASE tz = "America/Bogota" -> -5
                  [] tz = "Asia/Tokyo" -> 9
                  [] OTHER -> 0

\* A zone with daylight saving time: the offsets outside and inside the
\* saving period, the local hour that does not exist (clocks go forward) and
\* the local hour that occurs twice (clocks go back).
DstZone == [name |-> "America/New_York", std |-> -5, dst |-> -4, gap |-> 1000, fold |-> 2000]
KnownZones == {"America/Bogota", "UTC", "Asia/Tokyo", DstZone.name}

\* dt.tz_localize(tz, nonexistent="shift_forward", ambiguous="NaT") for a
\* zone the tz database knows.
tz_localize(t, tz) ==
    IF tz # DstZone.name THEN Utc(t - TzOffset(tz))
    ELSE IF t < DstZone.gap THEN Utc(t - DstZone.std)
    ELSE IF t = DstZone.gap THEN Utc(t + 1 - DstZone.dst)
    ELSE IF t < DstZone.fold THEN Utc(t - DstZone.dst)
    ELSE IF t = DstZone.fold THEN NaT
    ELSE Utc(t - DstZone.std)

\* tz_localize(tz_hint, ...) with the fallback tz_localize("UTC") when it
\* raises.
Localize(t, tz) == IF tz \in KnownZones THEN tz_localize(t, tz) ELSE Utc(t)

\* strftime of NaT raises and the outer except returns pd.NA.
to_iso_utc(value, tz_hint) ==
    IF value.k \in {"na", "blank"} THEN NaT
    ELSE IF value.k = "garbage" THEN NaT
    ELSE IF value.k = "aware" THEN Utc(value.t)
    ELSE LET dt == Localize(value.t, tz_hint)
         IN  IF dt.k = "na" THEN NaT ELSE dt

\* Position of the last "." of s, 0 when there is none.
RECURSIVE LastDot(_, _)
LastDot(s, i) == IF i = 0 THEN 0 ELSE IF CharAt(s, i) = "." THEN i ELSE LastDot(s, i - 1)

ext_to_mediatype(name) ==
    LET d == LastDot(name, Len(name))
        ext == IF d = 0 THEN "" ELSE SubSeq(Lower(name), d + 1, Len(name))
    IN  IF ext \in {"jpg", "jpeg"} THEN "image/jpeg"
        ELSE IF ext = "png" THEN "image/png"
        ELSE IF ext = "gif" THEN "image/gif"
        ELSE IF ext = "bmp" THEN "image/bmp"
        ELSE IF ext \in {"tif", "tiff"} THEN "image/tiff"
        ELSE IF ext = "mp4" THEN "video/mp4"
        ELSE IF ext = "avi" THEN "video/x-msvideo"
        ELSE "application/octet-stream"

\* ------------------------------------------------------------------------
\* Taxonomic classification
\* ------------------------------------------------------------------------
\* Variant: every text counts as present.
PresentAlways(s) == TRUE
\* x and x.lower() not in {"", "nan", "none"}
Present(s) == s # "" /\ Lower(s) \notin {"", "nan", "none"}

classify_observation_and_scientific_name(row) ==
    LET common_lower == Lower(Strip(PyStr(row.common_name)))
        scientific_name_norm == Strip(PyStr(row.scientific_name_norm))
        genus == Strip(PyStr(row.genus))
        family == Strip(PyStr(row.family))
        order == Strip(PyStr(row.order))
        class_name == Strip(PyStr(row.class))
    IN  IF common_lower \in {"human", "human-camera trapper"}
        THEN <<"human", IF Present(scientific_name_norm) THEN scientific_name_norm ELSE "Homo sapiens">>
        ELSE IF common_lower = "blank" THEN <<"blank", "blank">>
        ELSE IF common_lower = "animal" THEN <<"animal", "Animalia">>
        ELSE IF common_lower = "vehicle" THEN <<"vehicle", "blank">>
        ELSE IF common_lower = "unknown" THEN <<"unknown", "blank">>
        ELSE IF common_lower = "unclassified" THEN <<"unclassified", "blank">>
        ELSE IF Present(scientific_name_norm) /\ HasSpace(scientific_name_norm)
             THEN <<"animal", scientific_name_norm>>
        ELSE IF Present(genus) THEN <<"animal", genus>>
        ELSE IF Present(family) THEN <<"animal", family>>
        ELSE IF Present(order) THEN <<"animal", order>>
        ELSE IF Present(class_name) THEN <<"animal", class_name>>
        ELSE <<"animal", "Animalia">>

\* ------------------------------------------------------------------------
\* Data frames
\* ------------------------------------------------------------------------
\* A frame is a sequence of rows; a row is a record that carries its index
\* label in the field idx (read_csv numbers the rows 0, 1, 2, ...).
Merge(r, e) == [f \in (DOMAIN r) \cup (DOMAIN e) |-> IF f \in DOMAIN e THEN e[f] ELSE r[f]]
read_csv(rows) == [i \in 1..Len(rows) |-> Merge(rows[i], [idx |-> i - 1])]
SeqUpTo(S, n) == UNION {[1..k -> S] : k \in 0..n}
Range(f) == {f[i] : i \in DOMAIN f}
\* list(...): the sequence with its elements computed.
AsList(f) == f \o <<>>

\* A table under construction: the ordered column names and the rows.
Unbuilt == [built |-> FALSE, cols |-> <<>>, rows |-> <<>>]
Table(cols, rows) == [built |-> TRUE, cols |-> cols, rows |-> rows]

IsNaText(v) == v = NA
IsNaNum(c) == c.k # "num"
IsNaTs(c) == c.k = "na"
IsNaBool(b) == FALSE

\* Series.isna() on a column whose cells are of the given dtype.
isna(dtype, c) ==
    CASE dtype = "text" -> IsNaText(c)
      [] dtype = "num" -> IsNaNum(c)
      [] dtype = "ts" -> IsNaTs(c)
      [] OTHER -> IsNaBool(c)

\* df[col].isna().sum()
CountMissing(rows, col, dtype) == Cardinality({i \in DOMAIN rows : isna(dtype, rows[i][col])})

\* ------------------------------------------------------------------------
\* Inputs of one run
\* ------------------------------------------------------------------------
DepRow(id, lat, lon, s, e, tz) ==
    [deployment_id |-> id, latitude |-> lat, longitude |-> lon,
     start_date |-> s, end_date |-> e, timezone |-> tz]

\* A cell of the column bounding_boxes: missing, blank, text without a
\* detectionBox array, an array with a number float() rejects ("0.1.2"), or
\* an array [x_min, y_min, x_max, y_max], its numbers in hundredths.
BoxNA == [k |-> "na", b |-> <<0, 0, 0, 0>>]
BoxBlank == [k |-> "blank", b |-> <<0, 0, 0, 0>>]
BoxText == [k |-> "text", b |-> <<0, 0, 0, 0>>]
BoxBadNumber == [k |-> "badnum", b |-> <<0, 0, 0, 0>>]
Box(x_min, y_min, x_max, y_max) == [k |-> "box", b |-> <<x_min, y_min, x_max, y_max>>]

ImgRow(iid, dep, ts, fn, loc, st, et, tax) ==
    [image_id |-> iid, deployment_id |-> dep, timestamp |-> ts, filename |-> fn,
     location |-> loc, start_time |-> st, end_time |-> et, bounding_boxes |-> BoxNA,
     common_name |-> tax[1], genus |-> tax[2], species |-> tax[3],
     family |-> tax[4], order |-> tax[5], class |-> tax[6]]

PumaTax == <<"Puma", "Puma", "concolor", "Felidae", "Carnivora", "Mammalia">>

GoodDep1 == DepRow("D1", Num(4), Num(-74), TsDmy(100), TsDmy(200), NA)
GoodDep2 == DepRow("D2", Num(-90), Num(180), TsIso(100), TsAware(300), NA)
GoodImage == ImgRow("X", "D1", TsDmy(110), "a.jpg", "gs/a.jpg", TsNA, TsNA, PumaTax)

\* A row of projects.csv: the cells the manifest's name and licenses are read
\* from.
ProjRow(name, data_lic, img_lic) ==
    [project_name |-> name, metadata_license |-> data_lic, image_license |-> img_lic]
GoodProject == ProjRow("Mi Proyecto_2024", "CC-BY", "CC0")

\* The field lists of the local table schemas, when the schemas directory
\* holds them.
dep_schema_fields == <<"deploymentID", "locationID", "latitude", "longitude", "deploymentStart", "deploymentEnd">>
med_schema_fields == <<"mediaID", "deploymentID", "timestamp", "filePath", "filePublic", "fileName", "fileMediatype">>
obs_schema_fields == <<"observationID", "deploymentID", "mediaID", "eventID", "eventStart", "eventEnd",
                       "observationLevel", "observationType", "scientificName",
                       "bboxX", "bboxY", "bboxWidth", "bboxHeight">>
\* A schema file: whether json.loads of its text succeeds, and the names of
\* its "fields".
SchemaFile(fields) == [readable |-> TRUE, fields |-> fields]
UnreadableSchema == [readable |-> FALSE, fields |-> <<>>]

\* A second invocation of process_zip that runs at the same time: its
\* arguments and the second its clock shows in _ensure_work_dir.
NoPeer == [present |-> FALSE, zip_path |-> "", out_dir |-> "", now |-> 0, overwrite |-> FALSE]

BaseInput ==
    [zip_exists |-> TRUE, has_deploy |-> TRUE, has_images |-> TRUE,
     tz_col |-> FALSE, evt_cols |-> FALSE,
     deploys |-> <<GoodDep1, GoodDep2>>, images |-> <<GoodImage>>,
     validate |-> TRUE, make_zip |-> TRUE, overwrite |-> FALSE, schemas |-> FALSE,
     timezone_hint |-> "America/Bogota", nan_shared |-> TRUE, prior |-> FALSE,
     logger_raises |-> FALSE, progress_raises |-> {},
     zip_path |-> "in/a.zip", out_dir |-> "out", now |-> 0, peer |-> NoPeer,
     projects |-> <<GoodProject>>,
     dep_schema |-> SchemaFile(dep_schema_fields), med_schema |-> SchemaFile(med_schema_fields),
     obs_schema |-> SchemaFile(obs_schema_fields)]

\* Deployment rows: the two good rows and every row that differs from the
\* first good row in one cell.
DepRows ==
    {GoodDep1, GoodDep2, [GoodDep1 EXCEPT !.deployment_id = NA]}
    \cup {[GoodDep1 EXCEPT !.latitude = c] : c \in {Num(90), Num(91), Num(-91), Num(95), NaNCell, TextCell}}
    \cup {[GoodDep1 EXCEPT !.longitude = c] : c \in {Num(-180), Num(181), Num(-181), NaNCell}}
    \cup {[GoodDep1 EXCEPT !.start_date = c] : c \in {TsNA, TsGarbage}}
    \cup {[GoodDep1 EXCEPT !.end_date = c] : c \in {TsNA, TsBlank}}

DeployInputs == {[BaseInput EXCEPT !.deploys = d] : d \in SeqUpTo(DepRows, MaxDeploys)}

\* ------------------------------------------------------------------------
\* State
\* ------------------------------------------------------------------------
VARIABLES
    inp,        \* the arguments of process_zip and the content of the zip
    pc,         \* position inside process_zip
    deploys,    \* the deploys frame
    images,     \* the images frame
    dep_out,    \* the deployments table
    med_out,    \* the media table
    obs_out,    \* the observations table
    err,        \* the exception raised, if any
    fs,         \* the files under out_dir
    progress,   \* the percentages handed to report_progress so far
    result,     \* the value returned
    peer,       \* position of the second invocation, "none" without one
    manifest    \* the datapackage.json object this run has written

vars == <<inp, pc, deploys, images, dep_out, med_out, obs_out, err, fs, progress, result, peer, manifest>>

Artifacts == <<"deployments.csv", "media.csv", "observations.csv", "datapackage.json">>
ArtifactSet == Range(Artifacts)

\* Checked by the taxonomic gate, in this order.
fields_to_check == <<"common_name", "genus", "species", "family", "order">>
MaxExamplesPerField == 8

NoFiles == [work_dir |-> "absent", output |-> "absent",
            files |-> [a \in ArtifactSet |-> "absent"], zip |-> "absent"]
\* What an earlier run that used the same directory name left behind.
PriorFiles == [work_dir |-> "old", output |-> "old",
               files |-> [a \in ArtifactSet |-> "old"], zip |-> "old"]

\* No datapackage.json written yet.
NoManifest == [name |-> "", licenses |-> <<>>]

NoReport == [f \in Range(fields_to_check) |-> <<>>]
NoErr == [kind |-> "none", table |-> "", field |-> "", count |-> 0, report |-> NoReport,
          remedy |-> FALSE]
\* The message has a part "ACCIÓN REQUERIDA" with numbered steps: the
\* messages of the gate (line 1150) and of the deployments and media checks
\* (lines 1663-1705, 1803-1840) have one, the others have none.
has_action_required(kind, table) ==
    kind = "taxonomy" \/ (kind = "required" /\ table \in {"deployments", "media"})
\* count is the number of rows the message states, -1 when it states none.
Raise(kind, table, field, count) ==
    [kind |-> kind, table |-> table, field |-> field, count |-> count, report |-> NoReport,
     remedy |-> has_action_required(kind, table)]

InitWith(inputs) ==
    /\ inp \in inputs
    /\ pc = "start"
    /\ deploys = <<>>
    /\ images = <<>>
    /\ dep_out = Unbuilt
    /\ med_out = Unbuilt
    /\ obs_out = Unbuilt
    /\ err = NoErr
    /\ fs = IF inp.prior THEN PriorFiles ELSE NoFiles
    /\ progress = <<>>
    /\ result = "none"
    /\ peer = IF inp.peer.present THEN "start" ELSE "none"
    /\ manifest = NoManifest

\* ------------------------------------------------------------------------
\* process_zip, stage by stage
\* ------------------------------------------------------------------------
\* _log: try: logger(str(msg)) / except Exception: pass.
_log(cb_raises) == IF cb_raises THEN "swallowed" ELSE "returned"

\* Variant: the callback is called without the try.
_progress_bare(cb_raises) == IF cb_raises THEN "raised" ELSE "returned"

\* _progress: try: cb(int(pct), str(msg)) / except Exception: pass.
_progress(cb_raises) == IF cb_raises THEN "swallowed" ELSE "returned"

\* An exception of a callback leaves its wrapper and ends process_zip.
LogEscapes == _log(inp.logger_raises) = "raised"
ProgressEscapes(pct) == _progress(pct \in inp.progress_raises) = "raised"
CallbackError(pct) ==
    /\ pc' = "raised"
    /\ err' = Raise("callback", "", "", pct)

\* _load_csv_from_zip: the first matching member, or an empty frame.
_load_csv_from_zip(present, rows) == IF present THEN read_csv(rows) ELSE <<>>

\* Lines 1064-1082: first progress event, the zip must exist, the frames are
\* loaded.
ReadZip ==
    /\ pc = "start"
    /\ progress' = IF LogEscapes THEN progress ELSE Append(progress, 1)
    /\ IF LogEscapes \/ ProgressEscapes(1)
       THEN /\ CallbackError(1)
            /\ UNCHANGED <<deploys, images>>
       ELSE IF ~inp.zip_exists
       THEN /\ pc' = "raised"
            /\ err' = Raise("FileNotFoundError", "", "", 0)
            /\ UNCHANGED <<deploys, images>>
       ELSE /\ pc' = "gate"
            /\ deploys' = _load_csv_from_zip(inp.has_deploy, inp.deploys)
            /\ images' = _load_csv_from_zip(inp.has_images, inp.images)
            /\ err' = err
    /\ UNCHANGED <<inp, peer, manifest, dep_out, med_out, obs_out, fs, result>>

\* images[field].astype(str).str.lower().str.strip() == "no cv result"
IsNoCvResult(cell) == Strip(Lower(PyStr(cell))) = "no cv result"

\* The row numbers (row.name + 1) of the rows flagged for one field.
RECURSIVE NoCvRows(_, _, _)
NoCvRows(frame, field, i) ==
    IF i > Len(frame) THEN <<>>
    ELSE (IF IsNoCvResult(frame[i][field]) THEN <<frame[i].idx + 1>> ELSE <<>>)
         \o NoCvRows(frame, field, i + 1)

no_cv_issues(frame) == [f \in Range(fields_to_check) |-> NoCvRows(frame, f, 1)]

\* Variant: the report lists every flagged row.
ExampleRowsUncapped(field_issues) == field_issues

\* field_issues[:8]
ExampleRows(field_issues) ==
    SubSeq(field_issues, 1, IF Len(field_issues) < MaxExamplesPerField
                            THEN Len(field_issues) ELSE MaxExamplesPerField)

SumLen(issues) ==
    Len(issues["common_name"]) + Len(issues["genus"]) + Len(issues["species"])
    + Len(issues["family"]) + Len(issues["order"])

\* Lines 1089-1158: the taxonomic gate.
TaxonomyGate ==
    /\ pc = "gate"
    /\ progress' = Append(progress, 5)
    /\ LET issues == no_cv_issues(images)
       IN  IF ProgressEscapes(5) \/ (SumLen(issues) > 0 /\ LogEscapes)
           THEN CallbackError(5)
           ELSE IF SumLen(issues) > 0
           THEN /\ pc' = "raised"
                /\ err' = [kind |-> "taxonomy", table |-> "images", field |-> "",
                           count |-> SumLen(issues),
                           report |-> [f \in Range(fields_to_check) |-> ExampleRows(issues[f])],
                           remedy |-> has_action_required("taxonomy", "images")]
           ELSE /\ pc' = "norm"
                /\ err' = err
    /\ UNCHANGED <<inp, peer, manifest, deploys, images, dep_out, med_out, obs_out, fs, result>>

\* Variant: every image is localized with the global hint.
dep_tz_ignored(frame, id, default) == default

\* dep_tz.get(deployment_id, timezone_hint): the zone of the last deployment
\* row with that id.  A missing id matches no key.
dep_tz_get(frame, id, default) ==
    LET hits == {i \in DOMAIN frame : id # NA /\ frame[i].deployment_id = id}
    IN  IF hits = {} THEN default
        ELSE frame[CHOOSE i \in hits : \A j \in hits : j <= i].timezone

\* Lines 1170-1182.
NormalizeDeploys(frame) ==
    [i \in DOMAIN frame |->
        LET tz == IF inp.tz_col THEN frame[i].timezone ELSE inp.timezone_hint
        IN  Merge(frame[i], [timezone |-> tz,
                             deploymentStart |-> to_iso_utc(frame[i].start_date, tz),
                             deploymentEnd |-> to_iso_utc(frame[i].end_date, tz)])]

\* Lines 1188-1211.
NormalizeImages(frame, dframe) ==
    [i \in DOMAIN frame |->
        LET genus == Capitalize(Strip(FillNa(frame[i].genus)))
            species == Lower(Strip(FillNa(frame[i].species)))
        IN  Merge(frame[i],
                  [timestamp_iso |-> to_iso_utc(frame[i].timestamp,
                        dep_tz_get(dframe, frame[i].deployment_id, inp.timezone_hint)),
                   genus |-> genus,
                   species |-> species,
                   scientific_name_norm |-> Strip(genus \o " " \o species)])]

\* Lines 1164-1211.  Without an images member the frame has no genus column
\* and images.get("genus", "").fillna("") raises AttributeError.
Normalize ==
    /\ pc = "norm"
    /\ progress' = Append(progress, 8)
    /\ IF ProgressEscapes(8)
       THEN /\ CallbackError(8)
            /\ UNCHANGED <<deploys, images>>
       ELSE IF ~inp.has_images
       THEN /\ pc' = "raised"
            /\ err' = Raise("AttributeError", "images", "genus", 0)
            /\ deploys' = NormalizeDeploys(deploys)
            /\ images' = images
       ELSE /\ pc' = "dep"
            /\ deploys' = NormalizeDeploys(deploys)
            /\ images' = NormalizeImages(images, deploys')
            /\ err' = err
    /\ UNCHANGED <<inp, peer, manifest, dep_out, med_out, obs_out, fs, result>>

\* pd.to_numeric(errors="coerce") followed by the range cleaning of lines
\* 1226-1227.
to_numeric(c) == IF c.k = "num" THEN c ELSE NaNCell
\* Variant: an out-of-range coordinate is clamped to the nearest bound.
ClampRange(c, lo, hi) == IF c.k # "num" THEN c ELSE IF c.v < lo THEN Num(lo) ELSE IF c.v > hi THEN Num(hi) ELSE c
CleanRange(c, lo, hi) == IF c.k = "num" /\ (c.v < lo \/ c.v > hi) THEN NaNCell ELSE c

\* Variant: deploymentEnd is left out of the required columns.
DepRequiredWithoutEnd == <<"deploymentID", "latitude", "longitude", "deploymentStart">>
DepRequired == <<"deploymentID", "latitude", "longitude", "deploymentStart", "deploymentEnd">>

\* Variant: the rows left without a valid coordinate are dropped.
BuildDepRowsDropna(frame) ==
    SelectSeq([i \in DOMAIN frame |->
                  [idx |-> frame[i].idx,
                   deploymentID |-> frame[i].deployment_id,
                   latitude |-> CleanRange(to_numeric(frame[i].latitude), -90, 90),
                   longitude |-> CleanRange(to_numeric(frame[i].longitude), -180, 180),
                   deploymentStart |-> frame[i].deploymentStart,
                   deploymentEnd |-> frame[i].deploymentEnd]],
              LAMBDA r : r.latitude.k = "num" /\ r.longitude.k = "num")
\* Lines 1218-1227.
BuildDepRows(frame) ==
    [i \in DOMAIN frame |->
        [idx |-> frame[i].idx,
         deploymentID |-> frame[i].deployment_id,
         latitude |-> CleanRange(to_numeric(frame[i].latitude), -90, 90),
         longitude |-> CleanRange(to_numeric(frame[i].longitude), -180, 180),
         deploymentStart |-> frame[i].deploymentStart,
         deploymentEnd |-> frame[i].deploymentEnd]]

DepMissing(rows, col) ==
    CASE col = "deploymentID" -> CountMissing(rows, col, "text")
      [] col \in {"latitude", "longitude"} -> CountMissing(rows, col, "num")
      [] OTHER -> CountMissing(rows, col, "ts")

\* Variant: the last required column with missing values is reported.
LastMissing(missing) ==
    LET bad == {k \in DOMAIN missing : missing[k] > 0}
    IN  IF bad = {} THEN 0 ELSE CHOOSE k \in bad : \A j \in bad : k >= j
\* The position of the first required column, in order, whose count of missing
\* values (missing[k]) is positive; 0 if none.
FirstMissing(missing) ==
    LET bad == {k \in DOMAIN missing : missing[k] > 0}
    IN  IF bad = {} THEN 0 ELSE CHOOSE k \in bad : \A j \in bad : k <= j

\* Lines 1216-1708.
BuildDeployments ==
    /\ pc = "dep"
    /\ progress' = Append(progress, 20)
    /\ LET rows == BuildDepRows(deploys)
           k == FirstMissing([c \in DOMAIN DepRequired |-> DepMissing(rows, DepRequired[c])])
       IN  IF ProgressEscapes(20)
           THEN /\ CallbackError(20)
                /\ dep_out' = dep_out
           ELSE
           /\ dep_out' = Table(DepRequired, rows)
           /\ IF k > 0
              THEN /\ pc' = "raised"
                   /\ err' = Raise("required", "deployments", DepRequired[k],
                                   DepMissing(rows, DepRequired[k]))
              ELSE /\ pc' = "med"
                   /\ err' = err
    /\ UNCHANGED <<inp, peer, manifest, deploys, images, med_out, obs_out, fs, result>>

\* ------------------------------------------------------------------------
\* Media
\* ------------------------------------------------------------------------
\* Order of two cells of a sort key; a missing cell sorts last.
CmpText(a, b) ==
    IF a = b THEN 0 ELSE IF a = NA THEN 1 ELSE IF b = NA THEN -1
    ELSE IF StrLess(a, b) THEN -1 ELSE 1
CmpTs(a, b) ==
    IF a = b THEN 0 ELSE IF a.k = "na" THEN 1 ELSE IF b.k = "na" THEN -1
    ELSE IF a.t < b.t THEN -1 ELSE 1

\* Order of images.sort_values(["image_id", "timestamp_iso", "filename",
\* "deployment_id"]); rows with equal keys keep their order.
RowBefore(a, b) ==
    LET c1 == CmpText(a.image_id, b.image_id)
        c2 == CmpTs(a.timestamp_iso, b.timestamp_iso)
        c3 == CmpText(a.filename, b.filename)
        c4 == CmpText(a.deployment_id, b.deployment_id)
    IN  IF c1 # 0 THEN c1 < 0
        ELSE IF c2 # 0 THEN c2 < 0
        ELSE IF c3 # 0 THEN c3 < 0
        ELSE IF c4 # 0 THEN c4 < 0
        ELSE a.idx < b.idx

sort_values(frame) ==
    AsList([p \in DOMAIN frame |->
        frame[CHOOSE i \in DOMAIN frame :
                Cardinality({j \in DOMAIN frame : RowBefore(frame[j], frame[i])}) = p - 1]])

\* iid in dup_ids: value_counts(dropna=False) counts the missing ids as one
\* value; whether a missing id is then found in the set depends on the
\* missing cells being one object (inp.nan_shared).
IsDupId(frame, iid) ==
    /\ Cardinality({i \in DOMAIN frame : frame[i].image_id = iid}) > 1
    /\ (iid = NA => inp.nan_shared)

\* Variant: the counter of a duplicate group starts at 0.
media_id_from_zero(sorted, p) ==
    LET iid == sorted[p].image_id
        within == Cardinality({q \in 1..p : sorted[q].image_id = iid}) - 1
    IN  IF IsDupId(sorted, iid) THEN PyStr(iid) \o "_" \o Pad2(within) ELSE iid

\* Lines 1716-1727: the mediaID of the row at position p of the sorted frame.
media_id(sorted, p) ==
    LET iid == sorted[p].image_id
        within == Cardinality({q \in 1..p : sorted[q].image_id = iid})
    IN  IF IsDupId(sorted, iid) THEN PyStr(iid) \o "_" \o Pad2(within) ELSE iid

\* Variant: the column is added whatever its values.
AnyTextUnchecked(rows, col) == TRUE
\* include_if_any: the column is added when some value is neither missing
\* nor empty after strip.
AnyText(rows, col) == \E i \in DOMAIN rows : rows[i][col] # NA /\ Strip(PyStr(rows[i][col])) # ""
OptionalCols(rows, cols) == SelectSeq(cols, LAMBDA c : AnyText(rows, c))

MedRequired == <<"mediaID", "deploymentID", "timestamp", "filePath", "fileMediatype", "filePublic">>

BuildMedRows(sorted) ==
    [p \in DOMAIN sorted |->
        [idx |-> sorted[p].idx,
         mediaID |-> media_id(sorted, p),
         deploymentID |-> sorted[p].deployment_id,
         timestamp |-> sorted[p].timestamp_iso,
         filePath |-> sorted[p].location,
         fileMediatype |-> ext_to_mediatype(PyStr(sorted[p].filename)),
         fileName |-> sorted[p].filename,
         filePublic |-> FALSE]]

MedMissing(rows, col) ==
    CASE col \in {"mediaID", "deploymentID", "filePath", "fileMediatype"} -> CountMissing(rows, col, "text")
      [] col = "timestamp" -> CountMissing(rows, col, "ts")
      [] OTHER -> CountMissing(rows, col, "bool")

\* Variant: the uniqueness check never fails.
is_unique_unchecked(rows, col) == TRUE

\* Series.is_unique
is_unique(rows, col) == \A i, j \in DOMAIN rows : rows[i][col] = rows[j][col] => i = j

\* Lines 1711-1846.
BuildMedia ==
    /\ pc = "med"
    /\ progress' = Append(progress, 40)
    /\ LET rows == BuildMedRows(sort_values(images))
           k == FirstMissing([c \in DOMAIN MedRequired |-> MedMissing(rows, MedRequired[c])])
       IN  IF ProgressEscapes(40)
           THEN /\ CallbackError(40)
                /\ med_out' = med_out
           ELSE
           /\ med_out' = Table(<<"mediaID", "deploymentID", "timestamp", "filePath", "fileMediatype">>
                               \o OptionalCols(rows, <<"fileName">>) \o <<"filePublic">>, rows)
           /\ IF k > 0
              THEN /\ pc' = "raised"
                   /\ err' = Raise("required", "media", MedRequired[k], MedMissing(rows, MedRequired[k]))
              ELSE IF ~is_unique(rows, "mediaID")
              THEN /\ pc' = "raised"
                   /\ err' = Raise("duplicate", "media", "mediaID", -1)
              ELSE /\ pc' = "obs"
                   /\ err' = err
    /\ UNCHANGED <<inp, peer, manifest, deploys, images, dep_out, obs_out, fs, result>>

\* ------------------------------------------------------------------------
\* Observations
\* ------------------------------------------------------------------------
\* Lines 1862-1874, one of the two event times: the interval cell is used
\* unless the column is absent or the cell is None, "" or blank.
_to_evt_iso(row, cell) ==
    IF inp.evt_cols /\ cell.k # "blank"
    THEN to_iso_utc(cell, dep_tz_get(deploys, row.deployment_id, inp.timezone_hint))
    ELSE row.timestamp_iso

\* 1.0, in hundredths.
UnitLength == 100
NoBox == <<NaNCell, NaNCell, NaNCell, NaNCell>>
\* _parse_bounding_boxes, lines 2005-2060.  The pattern of line 2036 admits
\* digits and dots only: an array with a negative number does not match.
_parse_bounding_boxes(val) ==
    CASE val.k = "na" -> NoBox
      [] val.k = "blank" -> NoBox
      [] val.k = "text" -> NoBox
      [] val.k = "badnum" -> NoBox
      [] OTHER ->
           IF \E n \in 1..4 : val.b[n] < 0 THEN NoBox
           ELSE LET bbox_x == val.b[1]
                    bbox_y == val.b[2]
                    bbox_width == val.b[3] - val.b[1]
                    bbox_height == val.b[4] - val.b[2]
                IN  IF /\ 0 <= bbox_x /\ bbox_x <= UnitLength
                       /\ 0 <= bbox_y /\ bbox_y <= UnitLength
                       /\ 0 <= bbox_width /\ bbox_width <= UnitLength
                       /\ 0 <= bbox_height /\ bbox_height <= UnitLength
                    THEN <<Num(bbox_x), Num(bbox_y), Num(bbox_width), Num(bbox_height)>>
                    ELSE NoBox

\* Lines 2063-2064: bbox_df is built from a list, its index is 0, 1, 2, ...
\* in the order of the sorted frame.
bbox_df(sorted) == [p \in DOMAIN sorted |-> _parse_bounding_boxes(sorted[p].bounding_boxes)]

\* include_if_any of a column of numbers and pd.NA.
AnyNum(rows, col) == \E i \in DOMAIN rows : rows[i][col].k = "num"
OptionalNumCols(rows, cols) == SelectSeq(cols, LAMBDA c : AnyNum(rows, c))

ObsRequired == <<"observationID", "deploymentID", "eventStart", "eventEnd", "observationLevel", "observationType">>

\* img_for_obs is the sorted frame with its mediaID column.
BuildObsRows(sorted, med) ==
    [p \in DOMAIN sorted |->
        LET cls == classify_observation_and_scientific_name(sorted[p])
        IN  [idx |-> sorted[p].idx,
             observationID |-> "obs_" \o PyStr(med[p].mediaID),
             deploymentID |-> sorted[p].deployment_id,
             mediaID |-> med[p].mediaID,
             eventStart |-> _to_evt_iso(sorted[p], sorted[p].start_time),
             eventEnd |-> _to_evt_iso(sorted[p], sorted[p].end_time),
             observationLevel |-> "media",
             observationType |-> cls[1],
             scientificName |-> cls[2],
             vernacularName |-> sorted[p].common_name,
             \* df[col] = s aligns on the index: the row labelled idx takes
             \* the entry of bbox_df labelled idx.
             bboxX |-> bbox_df(sorted)[sorted[p].idx + 1][1],
             bboxY |-> bbox_df(sorted)[sorted[p].idx + 1][2],
             bboxWidth |-> bbox_df(sorted)[sorted[p].idx + 1][3],
             bboxHeight |-> bbox_df(sorted)[sorted[p].idx + 1][4]]]

ObsMissing(rows, col) ==
    CASE col \in {"eventStart", "eventEnd"} -> CountMissing(rows, col, "ts")
      [] OTHER -> CountMissing(rows, col, "text")

\* Lines 1849-2075.
BuildObservations ==
    /\ pc = "obs"
    /\ progress' = Append(progress, 70)
    /\ LET rows == BuildObsRows(sort_values(images), med_out.rows)
           k == FirstMissing([c \in DOMAIN ObsRequired |-> ObsMissing(rows, ObsRequired[c])])
       IN  IF ProgressEscapes(70)
           THEN /\ CallbackError(70)
                /\ obs_out' = obs_out
           ELSE
           /\ obs_out' = Table(<<"observationID", "deploymentID", "mediaID", "eventStart", "eventEnd",
                                 "observationLevel", "observationType", "scientificName">>
                               \o OptionalCols(rows, <<"vernacularName">>)
                               \o OptionalNumCols(rows, <<"bboxX", "bboxY", "bboxWidth", "bboxHeight">>),
                               rows)
           /\ IF k > 0
              THEN /\ pc' = "raised"
                   /\ err' = Raise("required", "observations", ObsRequired[k], -1)
              ELSE /\ pc' = "write"
                   /\ err' = err
    /\ UNCHANGED <<inp, peer, manifest, deploys, images, dep_out, med_out, fs, result>>

\* ------------------------------------------------------------------------
\* Writing
\* ------------------------------------------------------------------------
\* Position of the last "/" of s at or before i, 0 when there is none.
RECURSIVE LastSlash(_, _)
LastSlash(s, i) == IF i = 0 THEN 0 ELSE IF CharAt(s, i) = "/" THEN i ELSE LastSlash(s, i - 1)

\* Path(zip_path).stem: the last component without its last suffix.
Stem(path) ==
    LET name == SubSeq(path, LastSlash(path, Len(path)) + 1, Len(path))
        d == LastDot(name, Len(name))
    IN  IF d <= 1 THEN name ELSE SubSeq(name, 1, d - 1)

\* Lines 615-617: out_dir / f"WI2CamtrapDP_{stem}_{timestamp}", the
\* timestamp having the resolution of one second.
work_dir_path(zip_path, out_dir, now) ==
    out_dir \o "/WI2CamtrapDP_" \o Stem(zip_path) \o "_" \o ToString(now)

\* _ensure_work_dir: an existing output directory is emptied only with
\* overwrite; mkdir(parents=True, exist_ok=True) creates what is absent.
\* who marks what the caller creates.
_ensure_work_dir(f, overwrite, who) ==
    [f EXCEPT !.files = IF f.output # "absent" /\ overwrite
                        THEN [a \in ArtifactSet |-> "absent"] ELSE @,
              !.work_dir = IF @ = "absent" THEN who ELSE @,
              !.output = IF @ = "absent" THEN who ELSE @]

InSeq(x, sq) == \E i \in DOMAIN sq : sq[i] = x

\* pd.NA in a column of numbers and in a column of text.
NullCell(field) ==
    IF field \in {"latitude", "longitude", "bboxX", "bboxY", "bboxWidth", "bboxHeight"}
    THEN NaNCell ELSE NA

\* Variant: the columns the schema does not declare are kept after the
\* schema's.
_align_keeping_undeclared(tbl, schema) ==
    IF ~schema.readable \/ schema.fields = <<>> THEN tbl
    ELSE Table(schema.fields \o SelectSeq(tbl.cols, LAMBDA c : ~InSeq(c, schema.fields)),
               [i \in DOMAIN tbl.rows |->
                    [f \in Range(schema.fields) \cup Range(tbl.cols) \cup {"idx"} |->
                        IF f = "idx" \/ InSeq(f, tbl.cols) THEN tbl.rows[i][f] ELSE NullCell(f)]])
\* _align_df_to_local_schema: a failure to read the schema is caught and
\* the frame returned as it is, and so is it without fields; otherwise every
\* schema field absent from the table is added as a column of pd.NA, and
\* df[fields] keeps the schema's columns in the schema's order with the rows
\* and their index.
_align_df_to_local_schema(tbl, schema) ==
    IF ~schema.readable \/ schema.fields = <<>> THEN tbl
    ELSE Table(schema.fields,
               [i \in DOMAIN tbl.rows |->
                    [f \in Range(schema.fields) \cup {"idx"} |->
                        IF f = "idx" \/ InSeq(f, tbl.cols) THEN tbl.rows[i][f] ELSE NullCell(f)]])

\* Lines 2078-2102.
PrepareOutput ==
    /\ pc = "write"
    /\ progress' = Append(progress, 85)
    /\ IF ProgressEscapes(85)
       THEN /\ CallbackError(85)
            /\ UNCHANGED <<fs, dep_out, med_out, obs_out>>
       ELSE /\ fs' = _ensure_work_dir(fs, inp.overwrite, "new")
            /\ dep_out' = IF inp.schemas THEN _align_df_to_local_schema(dep_out, inp.dep_schema) ELSE dep_out
            /\ med_out' = IF inp.schemas THEN _align_df_to_local_schema(med_out, inp.med_schema) ELSE med_out
            /\ obs_out' = IF inp.schemas THEN _align_df_to_local_schema(obs_out, inp.obs_schema) ELSE obs_out
            /\ pc' = "artifact_1"
            /\ err' = err
    /\ UNCHANGED <<inp, peer, manifest, deploys, images, result>>

\* ------------------------------------------------------------------------
\* The manifest
\* ------------------------------------------------------------------------
\* c occurs in the string s.
RECURSIVE InStr(_, _)
InStr(c, s) == s # "" /\ (CharAt(s, 1) = c \/ InStr(c, SubSeq(s, 2, Len(s))))

\* Characters outside Alphabet that project names are made of: ASCII
\* punctuation and accented letters (with the letter NFKD decomposes them
\* to).
AsciiPunct == "#()"
Accented == ("Ñ" :> "N") @@ ("á" :> "a") @@ ("é" :> "e") @@ ("ó" :> "o")

\* Line 114-115: NFKD, then encode("ascii", "ignore"): the combining mark of
\* an accented letter and every other non-ASCII character are lost.
RECURSIVE nfkd_ascii(_)
nfkd_ascii(s) ==
    IF s = "" THEN ""
    ELSE LET c == CharAt(s, 1)
         IN  (IF c \in Chars \/ InStr(c, AsciiPunct) THEN c
              ELSE IF c \in DOMAIN Accented THEN Accented[c]
              ELSE "")
             \o nfkd_ascii(SubSeq(s, 2, Len(s)))

\* Line 118: s.replace(" ", "-").replace("_", "-")
RECURSIVE replace_dash(_)
replace_dash(s) ==
    IF s = "" THEN ""
    ELSE (IF CharAt(s, 1) \in {" ", "_"} THEN "-" ELSE CharAt(s, 1))
         \o replace_dash(SubSeq(s, 2, Len(s)))

\* Line 122: s.lower() of an ASCII string.
RECURSIVE ascii_lower(_)
ascii_lower(s) ==
    IF s = "" THEN ""
    ELSE (IF CharAt(s, 1) \in Chars THEN LowerChar[CharAt(s, 1)] ELSE CharAt(s, 1))
         \o ascii_lower(SubSeq(s, 2, Len(s)))

\* The character class [-a-z0-9._/] of line 123.
SlugAllowed(c) == c \in Chars /\ (IsLowerCode(Code[c]) \/ InStr(c, "-0123456789._/"))
\* re.sub(r"[^-a-z0-9._/]+", "", s)
RECURSIVE remove_disallowed(_)
remove_disallowed(s) ==
    IF s = "" THEN ""
    ELSE (IF SlugAllowed(CharAt(s, 1)) THEN CharAt(s, 1) ELSE "")
         \o remove_disallowed(SubSeq(s, 2, Len(s)))

\* re.sub(r"^[-./]+", "", s)
RECURSIVE lstrip_punct(_)
lstrip_punct(s) ==
    IF s # "" /\ InStr(CharAt(s, 1), "-./") THEN lstrip_punct(SubSeq(s, 2, Len(s))) ELSE s
\* re.sub(r"[-./]+$", "", s)
RECURSIVE rstrip_punct(_)
rstrip_punct(s) ==
    IF s # "" /\ InStr(CharAt(s, Len(s)), "-./") THEN rstrip_punct(SubSeq(s, 1, Len(s) - 1)) ELSE s

\* Variant: the ends are cleaned before the disallowed characters are
\* removed.
_slugify_strip_first(name) ==
    LET s == remove_disallowed(rstrip_punct(lstrip_punct(ascii_lower(replace_dash(nfkd_ascii(name))))))
    IN  IF s # "" THEN s ELSE "wi-project"
\* _slugify_name, lines 113-129.
_slugify_name(name) ==
    LET s == rstrip_punct(lstrip_punct(remove_disallowed(ascii_lower(replace_dash(nfkd_ascii(name))))))
    IN  IF s # "" THEN s ELSE "wi-project"

\* Lines 712-719.
license_mapping ==
    ("CC-BY" :> "CC-BY-4.0") @@ ("CC-BY-NC" :> "CC-BY-NC-4.0") @@ ("CC-BY-SA" :> "CC-BY-SA-4.0")
    @@ ("CC-BY-NC-SA" :> "CC-BY-NC-SA-4.0") @@ ("CC0" :> "CC0-1.0") @@ ("Public Domain" :> "CC0-1.0")

\* Lines 706-721.  lic_str is a cell of projects.csv or "" when the frame is
\* empty; a missing cell is NaN, whose str() is "nan".
normalize_license(lic_str) ==
    IF lic_str = "" \/ Strip(PyStr(lic_str)) = "" \/ Lower(PyStr(lic_str)) \in {"nan", "none"}
    THEN "CC-BY-4.0"
    ELSE LET lic_clean == Strip(PyStr(lic_str))
         IN  IF lic_clean \in DOMAIN license_mapping THEN license_mapping[lic_clean] ELSE lic_clean

\* Lines 699-739.
_build_licenses_array(data_license, media_license) ==
    <<[name |-> normalize_license(data_license), scope |-> "data"],
      [name |-> normalize_license(media_license), scope |-> "media"]>>

\* _build_datapackage_min, the name and the licenses (lines 743-768, 787,
\* 921-930): the first row of projects, or the defaults of an empty frame.
_build_datapackage_min(projects) ==
    LET pkg_name == IF projects = <<>> THEN "wi-project" ELSE projects[1].project_name
        data_lic == IF projects = <<>> THEN "" ELSE projects[1].metadata_license
        img_lic == IF projects = <<>> THEN "" ELSE projects[1].image_license
    IN  [name |-> _slugify_name(PyStr(pkg_name)),
         licenses |-> _build_licenses_array(data_lic, img_lic)]

\* What a write to a file can do: complete, fail before the file is opened,
\* or fail after it was opened (and truncated).
IOOutcomes == {"ok", "open_error", "write_error"}

WritePc == <<"artifact_1", "artifact_2", "artifact_3", "artifact_4">>
\* Variant: media.csv is not written.
AfterWriteSkippingMedia(k) == IF k = 1 THEN WritePc[3] ELSE IF k < Len(WritePc) THEN WritePc[k + 1] ELSE "validate"
AfterWrite(k) == IF k < Len(WritePc) THEN WritePc[k + 1] ELSE "validate"

\* Lines 775-781: _build_datapackage_min loads the three schema files with
\* json.load when process_zip found them; nothing catches its failure.
SchemaLoadFails ==
    inp.schemas /\ ~(inp.dep_schema.readable /\ inp.med_schema.readable /\ inp.obs_schema.readable)

\* Lines 2104-2124: to_csv of the three tables, then json.dump of the
\* manifest, in this order; nothing catches a failure.  The logger is
\* called after the third table and after the manifest.
WriteArtifact ==
    \E k \in DOMAIN WritePc, outcome \in IOOutcomes :
        /\ pc = WritePc[k]
        /\ IF k = Len(WritePc) /\ SchemaLoadFails
           THEN /\ pc' = "raised"
                /\ err' = Raise("JSONDecodeError", Artifacts[k], "", -1)
                /\ UNCHANGED <<fs, manifest>>
           ELSE /\ fs' = [fs EXCEPT !.files[Artifacts[k]] =
                               CASE outcome = "ok" -> "new"
                                 [] outcome = "write_error" -> "partial"
                                 [] OTHER -> @]
                /\ IF outcome = "ok"
                   THEN IF k >= 3 /\ LogEscapes
                        THEN CallbackError(85)
                        ELSE /\ pc' = AfterWrite(k)
                             /\ err' = err
                   ELSE /\ pc' = "raised"
                        /\ err' = Raise("OSError", Artifacts[k], "", -1)
                /\ manifest' = IF k = Len(WritePc) /\ outcome = "ok"
                               THEN _build_datapackage_min(_load_csv_from_zip(TRUE, inp.projects))
                               ELSE manifest
        /\ UNCHANGED <<inp, peer, deploys, images, dep_out, med_out, obs_out, progress, result>>

\* How the external validator can behave.
ValidatorBehaviours == {"not_installed", "raises", "valid", "invalid"}

\* Variant: an exception of the validator or an invalid package stops the
\* run.
validation_strict(v) ==
    CASE v = "not_installed" -> "skipped"
      [] v = "raises" -> "error"
      [] v = "valid" -> "valid"
      [] OTHER -> "error"

\* Lines 2128-2161: what the try/except Exception around the validator
\* leaves of its behaviour; each case ends in a _log call.
validation(v) ==
    CASE v = "not_installed" -> "skipped"
      [] v = "raises" -> "skipped"
      [] v = "valid" -> "valid"
      [] OTHER -> "issues"

\* Lines 2127-2161; the progress event follows the import.
Validate ==
    /\ pc = "validate"
    /\ \E v \in ValidatorBehaviours :
          /\ progress' = IF inp.validate /\ v # "not_installed" THEN Append(progress, 92) ELSE progress
          /\ IF inp.validate /\ ((v # "not_installed" /\ ProgressEscapes(92)) \/ LogEscapes)
             THEN CallbackError(92)
             ELSE IF inp.validate /\ validation(v) = "error"
             THEN /\ pc' = "raised"
                  /\ err' = Raise("validation", "", "", -1)
             ELSE /\ pc' = "zip"
                  /\ err' = err
    /\ UNCHANGED <<inp, peer, manifest, deploys, images, dep_out, med_out, obs_out, fs, result>>

\* Lines 2165-2168 with _make_result_zip: the zip file is opened with mode
\* "w" whether or not it was removed first.
MakeZip ==
    /\ pc = "zip"
    /\ IF inp.make_zip
       THEN /\ progress' = Append(progress, 95)
            /\ \E outcome \in IOOutcomes :
                 /\ fs' = [fs EXCEPT !.zip = CASE outcome = "ok" -> "new"
                                               [] outcome = "write_error" -> "partial"
                                               [] OTHER -> @]
                 /\ IF ProgressEscapes(95) \/ (outcome = "ok" /\ LogEscapes)
                    THEN CallbackError(95)
                    ELSE IF outcome = "ok"
                    THEN /\ pc' = "final"
                         /\ err' = err
                    ELSE /\ pc' = "raised"
                         /\ err' = Raise("OSError", "zip", "", -1)
       ELSE /\ pc' = "final"
            /\ UNCHANGED <<progress, fs, err>>
    /\ UNCHANGED <<inp, peer, manifest, deploys, images, dep_out, med_out, obs_out, result>>

\* Variant: the final check accepts whatever is on disk.
ArtifactUnchecked(f, a) == TRUE

\* p.exists() and p.stat().st_size > 0
ArtifactOk(f, a) == f.files[a] \in {"new", "old", "peer"}

\* Lines 2170-2178.
FinalCheck ==
    /\ pc = "final"
    /\ progress' = Append(progress, 100)
    /\ IF ProgressEscapes(100) \/ ((\A a \in ArtifactSet : ArtifactOk(fs, a)) /\ LogEscapes)
       THEN /\ CallbackError(100)
            /\ result' = result
       ELSE IF \E a \in ArtifactSet : ~ArtifactOk(fs, a)
       THEN /\ pc' = "raised"
            /\ err' = Raise("artifacts", "", "", -1)
            /\ result' = result
       ELSE /\ pc' = "done"
            /\ err' = err
            /\ result' = "work_dir"
    /\ UNCHANGED <<inp, peer, manifest, deploys, images, dep_out, med_out, obs_out, fs>>

Next ==
    \/ ReadZip
    \/ TaxonomyGate
    \/ Normalize
    \/ BuildDeployments
    \/ BuildMedia
    \/ BuildObservations
    \/ PrepareOutput
    \/ WriteArtifact
    \/ Validate
    \/ MakeZip
    \/ FinalCheck

\* ------------------------------------------------------------------------
\* A second invocation running at the same time
\* ------------------------------------------------------------------------
\* The two invocations name the same working directory.
SameWorkDir ==
    work_dir_path(inp.peer.zip_path, inp.peer.out_dir, inp.peer.now)
        = work_dir_path(inp.zip_path, inp.out_dir, inp.now)

PeerPc == <<"artifact_1", "artifact_2", "artifact_3", "artifact_4">>

\* Line 2080 of the second invocation.
PeerEnsureWorkDir ==
    /\ peer = "start"
    /\ peer' = PeerPc[1]
    /\ fs' = IF SameWorkDir THEN _ensure_work_dir(fs, inp.peer.overwrite, "peer") ELSE fs
    /\ UNCHANGED <<inp, pc, manifest, deploys, images, dep_out, med_out, obs_out, err, progress, result>>

\* Lines 2104-2123 of the second invocation, one file at a time.
PeerWrite ==
    \E k \in DOMAIN PeerPc :
        /\ peer = PeerPc[k]
        /\ peer' = IF k < Len(PeerPc) THEN PeerPc[k + 1] ELSE "zip"
        /\ fs' = IF SameWorkDir THEN [fs EXCEPT !.files[Artifacts[k]] = "peer"] ELSE fs
        /\ UNCHANGED <<inp, pc, manifest, deploys, images, dep_out, med_out, obs_out, err, progress, result>>

\* Line 2167 of the second invocation.
PeerMakeZip ==
    /\ peer = "zip"
    /\ peer' = "done"
    /\ fs' = IF SameWorkDir THEN [fs EXCEPT !.zip = "peer"] ELSE fs
    /\ UNCHANGED <<inp, pc, manifest, deploys, images, dep_out, med_out, obs_out, err, progress, result>>

NextConc ==
    \/ ReadZip
    \/ TaxonomyGate
    \/ Normalize
    \/ BuildDeployments
    \/ BuildMedia
    \/ BuildObservations
    \/ PrepareOutput
    \/ WriteArtifact
    \/ Validate
    \/ MakeZip
    \/ FinalCheck
    \/ PeerEnsureWorkDir
    \/ PeerWrite
    \/ PeerMakeZip

\* ------------------------------------------------------------------------
\* Input families and specifications
\* ------------------------------------------------------------------------
\* Image rows that differ from the good row in the cells the media table is
\* built from.
MediaRows ==
    {GoodImage,
     [GoodImage EXCEPT !.timestamp = TsDmy(105)],
     [GoodImage EXCEPT !.deployment_id = "D2"],
     [GoodImage EXCEPT !.filename = "B.MP4"],
     [GoodImage EXCEPT !.image_id = "X_01"],
     [GoodImage EXCEPT !.image_id = "Y"],
     [GoodImage EXCEPT !.image_id = NA],
     [GoodImage EXCEPT !.timestamp = TsGarbage],
     [GoodImage EXCEPT !.image_id = "Y", !.deployment_id = "D9"],
     [GoodImage EXCEPT !.deployment_id = NA],
     [GoodImage EXCEPT !.location = NA]}

MediaInputs ==
    {[BaseInput EXCEPT !.images = im, !.nan_shared = ns] :
        im \in SeqUpTo(MediaRows, MaxImages), ns \in BOOLEAN}

\* Image rows with explicit event interval cells.
EventRows ==
    {[GoodImage EXCEPT !.start_time = st, !.end_time = et] :
        st \in {TsNA, TsBlank, TsGarbage, TsDmy(109)}, et \in {TsBlank, TsNA, TsIso(111)}}

EventInputs ==
    {[BaseInput EXCEPT !.images = im, !.evt_cols = ec] :
        im \in SeqUpTo(EventRows, MaxImages - 1), ec \in BOOLEAN}

NoTax == <<NA, NA, NA, NA, NA, NA>>
TaxonRows ==
    {GoodImage,
     [GoodImage EXCEPT !.image_id = "Y", !.common_name = NA, !.genus = NA, !.species = NA,
                       !.family = NA, !.order = NA, !.class = NA],
     [GoodImage EXCEPT !.common_name = "No CV Result"],
     [GoodImage EXCEPT !.genus = "no cv result"],
     [GoodImage EXCEPT !.species = " No CV Result "],
     [GoodImage EXCEPT !.family = "NO CV RESULT"],
     [GoodImage EXCEPT !.order = "No CV Result "],
     [GoodImage EXCEPT !.class = "No CV Result"],
     [GoodImage EXCEPT !.image_id = "Z", !.common_name = NA, !.genus = NA, !.species = NA,
                       !.family = NA, !.order = NA, !.class = "No CV Result"]}

TaxonInputs == {[BaseInput EXCEPT !.images = im] : im \in SeqUpTo(TaxonRows, MaxImages)}

\* The zip, the options and the output directory vary; the tables are good.
EnvInputs ==
    {[BaseInput EXCEPT !.zip_exists = ze, !.has_deploy = hd, !.has_images = hi,
                       !.deploys = IF hd THEN @ ELSE <<>>, !.images = IF hi THEN @ ELSE <<>>,
                       !.validate = v, !.make_zip = mz, !.overwrite = ow,
                       !.schemas = sc, !.prior = pr] :
        ze, hd, hi, v, mz, ow, sc, pr \in BOOLEAN}

\* Long image tables for the report of the gate.
GateRows == {GoodImage, [GoodImage EXCEPT !.genus = " NO CV RESULT", !.family = "no cv result "]}
GateInputs == {[BaseInput EXCEPT !.images = im] : im \in SeqUpTo(GateRows, MaxGateRows)}

\* Image rows with one missing cell each.
MediaFaultRows ==
    {GoodImage,
     [GoodImage EXCEPT !.image_id = NA],
     [GoodImage EXCEPT !.deployment_id = NA],
     [GoodImage EXCEPT !.timestamp = TsNA],
     [GoodImage EXCEPT !.location = NA]}
MediaFaultInputs == {[BaseInput EXCEPT !.images = im] : im \in SeqUpTo(MediaFaultRows, MaxImages)}

Init == InitWith(DeployInputs \cup MediaFaultInputs \cup EventInputs \cup EnvInputs)
Spec == Init /\ [][Next]_vars

InitMedia == InitWith(MediaInputs)
SpecMedia == InitMedia /\ [][Next]_vars

InitTaxon == InitWith(TaxonInputs)
SpecTaxon == InitTaxon /\ [][Next]_vars

InitGate == InitWith(GateInputs)
SpecGate == InitGate /\ [][Next]_vars

\* One image row per combination of common name and taxonomic cells.
ClassRows ==
    {[GoodImage EXCEPT !.common_name = cn, !.genus = g, !.species = sp,
                       !.family = f, !.order = o, !.class = c] :
        cn \in {"Human", " human-camera trapper ", "BLANK", "Animal", "vehicle ", "Unknown",
                "UNCLASSIFIED", "Puma", "Human being", NA},
        g \in {NA, "didelphis", " homo ", "none"},
        sp \in {NA, "Sapiens", "sp nov"},
        f \in {NA, "Didelphidae"},
        o \in {NA, "Carnivora"},
        c \in {NA, "Mammalia"}}
ClassInputs == {[BaseInput EXCEPT !.images = <<r>>] : r \in ClassRows}

InitClass == InitWith(ClassInputs)
SpecClass == InitClass /\ [][Next]_vars

\* Deployments that declare zones, and images of those deployments and of
\* none, taken at ordinary hours and at the two transition hours.
TzZones == {"America/Bogota", "Asia/Tokyo", DstZone.name, "Mars/Phobos", NA}
TzInputs ==
    {[BaseInput EXCEPT !.tz_col = tc, !.evt_cols = ec, !.timezone_hint = hint,
                       !.deploys = <<[GoodDep1 EXCEPT !.timezone = z1],
                                     [GoodDep2 EXCEPT !.deployment_id = id2, !.timezone = z2]>>,
                       !.images = <<[GoodImage EXCEPT !.timestamp = ts, !.start_time = TsDmy(109),
                                                      !.end_time = TsIso(111)],
                                    [GoodImage EXCEPT !.image_id = "Y", !.deployment_id = dep,
                                                      !.start_time = TsDmy(109), !.end_time = TsIso(111)]>>] :
        tc \in BOOLEAN, ec \in BOOLEAN, hint \in {"America/Bogota", "UTC"},
        z1 \in TzZones, z2 \in {"America/Bogota", "Asia/Tokyo"}, id2 \in {"D2", "D1"},
        ts \in {TsDmy(110), TsDmy(DstZone.gap), TsDmy(DstZone.fold), TsAware(110)},
        dep \in {"D2", "D9"}}

InitTz == InitWith(TzInputs)
SpecTz == InitTz /\ [][Next]_vars

\* Callbacks that raise: the logger at every call or never, the progress
\* callback at the calls of a set of percentages.
ProgressPoints == {1, 5, 8, 20, 40, 70, 85, 92, 95, 100}
CallbackInputs ==
    {[BaseInput EXCEPT !.logger_raises = lr, !.progress_raises = pr, !.images = im,
                       !.validate = v, !.make_zip = mz] :
        lr \in BOOLEAN,
        pr \in {{}, ProgressPoints} \cup {{p} : p \in ProgressPoints},
        im \in {<<GoodImage>>, <<[GoodImage EXCEPT !.genus = "No CV Result"]>>,
                <<[GoodImage EXCEPT !.timestamp = TsGarbage]>>},
        v \in BOOLEAN, mz \in BOOLEAN}

InitCallbacks == InitWith(CallbackInputs)
SpecCallbacks == InitCallbacks /\ [][Next]_vars

\* Two invocations on different zip files: the other zip has the same file
\* name in another folder or another name, the out_dir is the same or
\* another, and its clock shows the same second or the next.
ConcInputs ==
    {[BaseInput EXCEPT !.overwrite = ow,
                       !.peer = [present |-> TRUE, zip_path |-> zp, out_dir |-> od, now |-> t,
                                 overwrite |-> pow]] :
        ow \in BOOLEAN, zp \in {"in2/a.zip", "in/b.zip"}, od \in {"out", "out2"},
        t \in {0, 1}, pow \in BOOLEAN}

\* Tables with gaps in several required columns of several tables at once.
OrderDeploys ==
    {<<GoodDep1>>,
     <<[GoodDep1 EXCEPT !.latitude = NaNCell, !.end_date = TsNA]>>,
     <<GoodDep1, [GoodDep2 EXCEPT !.deployment_id = NA, !.start_date = TsGarbage]>>,
     <<[GoodDep1 EXCEPT !.longitude = Num(181)], [GoodDep2 EXCEPT !.latitude = TextCell]>>}
GoodEventImage == [GoodImage EXCEPT !.start_time = TsDmy(109), !.end_time = TsIso(111)]
OrderImages ==
    {<<GoodEventImage>>,
     <<[GoodImage EXCEPT !.deployment_id = NA, !.timestamp = TsNA]>>,
     <<[GoodImage EXCEPT !.timestamp = TsGarbage, !.location = NA, !.start_time = TsGarbage]>>,
     <<[GoodImage EXCEPT !.start_time = TsGarbage, !.end_time = TsGarbage]>>,
     <<GoodEventImage, [GoodImage EXCEPT !.image_id = NA, !.location = NA, !.end_time = TsGarbage]>>}
OrderInputs ==
    {[BaseInput EXCEPT !.deploys = d, !.images = im, !.evt_cols = TRUE,
                       !.validate = v, !.make_zip = mz] :
        d \in OrderDeploys, im \in OrderImages, v, mz \in BOOLEAN}
InitOrder == InitWith(OrderInputs)
SpecOrder == InitOrder /\ [][Next]_vars

\* Project names: every string of at most MaxNameLen characters over a set
\* with an upper-case letter, a digit, the two characters that become "-",
\* two of the characters cleaned from the ends, an accented upper-case
\* letter and a character the pattern removes.
NameChars == {"A", "1", " ", "_", "-", ".", "Ñ", "#"}
RECURSIVE Join(_)
Join(sq) == IF sq = <<>> THEN "" ELSE sq[1] \o Join(SubSeq(sq, 2, Len(sq)))
Names == {Join(sq) : sq \in SeqUpTo(NameChars, MaxNameLen)} \ {""}
SlugInputs ==
    {[BaseInput EXCEPT !.projects = pr] :
        pr \in {<<>>, <<ProjRow(NA, NA, NA)>>, <<ProjRow("Estación #1 (Bogotá)", "CC-BY", "CC0")>>}
               \cup {<<ProjRow(n, "CC-BY", "CC0")>> : n \in Names}}
InitSlug == InitWith(SlugInputs)
SpecSlug == InitSlug /\ [][Next]_vars

\* License cells of projects.csv: missing, blank, the short codes of the
\* synonym table, full identifiers, other spellings and free text.
LicenseTexts ==
    {NA, " ", "CC-BY", "CC-BY-NC", "CC-BY-SA", "CC-BY-NC-SA", "CC0", "Public Domain", " CC0 ",
     "CC-BY-4.0", "CC0-1.0", "MIT", "cc-by", "Todos los derechos reservados"}
LicenseInputs ==
    {[BaseInput EXCEPT !.projects = pr] :
        pr \in {<<>>} \cup {<<ProjRow("Mi Proyecto", dl, il)>> : dl, il \in LicenseTexts}}
InitLicense == InitWith(LicenseInputs)
SpecLicense == InitLicense /\ [][Next]_vars

\* Schema files of several shapes, with and without the schemas directory,
\* and image tables whose optional columns differ.
AlignImages ==
    {<<GoodImage>>,
     <<[GoodImage EXCEPT !.filename = NA, !.common_name = NA]>>,
     <<[GoodImage EXCEPT !.bounding_boxes = Box(10, 20, 50, 60)],
       [GoodImage EXCEPT !.image_id = "Y", !.common_name = " "]>>}
AlignInputs ==
    {[BaseInput EXCEPT !.schemas = sc, !.images = im, !.dep_schema = ds, !.med_schema = ms,
                       !.obs_schema = os] :
        sc \in BOOLEAN, im \in AlignImages,
        ds \in {SchemaFile(dep_schema_fields), UnreadableSchema, SchemaFile(<<>>),
                SchemaFile(<<"longitude", "latitude", "deploymentID">>)},
        ms \in {SchemaFile(med_schema_fields), UnreadableSchema,
                SchemaFile(<<"mediaID", "fileName", "favorite">>)},
        os \in {SchemaFile(obs_schema_fields), SchemaFile(<<>>),
                SchemaFile(<<"vernacularName", "observationID", "bboxX">>)}}
InitAlign == InitWith(AlignInputs)
SpecAlign == InitAlign /\ [][Next]_vars

\* Cells of bounding_boxes: the cells without an array and the arrays with
\* coordinates below, inside and above the unit interval (in hundredths).
BoxXs == {-10, 0, 10, 50, 100, 140}
BoxYs == {0, 20, 60, 140}
BoxCells ==
    {BoxNA, BoxBlank, BoxText, BoxBadNumber}
    \cup {Box(x_min, y_min, x_max, y_max) : x_min, x_max \in BoxXs, y_min, y_max \in BoxYs}
BoxInputs == {[BaseInput EXCEPT !.images = <<[GoodImage EXCEPT !.bounding_boxes = c]>>] : c \in BoxCells}
InitBox == InitWith(BoxInputs)
SpecBox == InitBox /\ [][Next]_vars

\* Image tables in every order of their rows: three images with different
\* identifiers and different boxes.
SortRows ==
    {[GoodImage EXCEPT !.bounding_boxes = Box(10, 20, 50, 60)],
     [GoodImage EXCEPT !.image_id = "Y", !.deployment_id = "D2", !.bounding_boxes = Box(0, 0, 100, 100)],
     [GoodImage EXCEPT !.image_id = "Z", !.bounding_boxes = BoxNA]}
SortInputs ==
    {[BaseInput EXCEPT !.images = im] :
        im \in {sq \in SeqUpTo(SortRows, Cardinality(SortRows)) :
                    Len(sq) >= 2 /\ \A i, j \in DOMAIN sq : sq[i] = sq[j] => i = j}}
InitSort == InitWith(SortInputs)
SpecSort == InitSort /\ [][Next]_vars

InitConc == InitWith(ConcInputs)
SpecConc == InitConc /\ [][NextConc]_vars

\* ------------------------------------------------------------------------
\* Properties
\* ------------------------------------------------------------------------
InitialFs == IF inp.prior THEN PriorFiles ELSE NoFiles
\* The artifacts this run has created or touched.
NewFiles == {a \in ArtifactSet : fs.files[a] \in {"new", "partial"}}
NothingOnDisk == fs = InitialFs /\ NewFiles = {}

DepHasGap ==
    \E i \in DOMAIN dep_out.rows :
        \/ dep_out.rows[i].deploymentID = NA
        \/ dep_out.rows[i].latitude.k # "num"
        \/ dep_out.rows[i].longitude.k # "num"
        \/ dep_out.rows[i].deploymentStart.k = "na"
        \/ dep_out.rows[i].deploymentEnd.k = "na"
MedHasGap ==
    \E i \in DOMAIN med_out.rows :
        \/ med_out.rows[i].mediaID = NA
        \/ med_out.rows[i].deploymentID = NA
        \/ med_out.rows[i].timestamp.k = "na"
        \/ med_out.rows[i].filePath = NA
        \/ med_out.rows[i].fileMediatype = NA
ObsHasGap ==
    \E i \in DOMAIN obs_out.rows :
        \/ obs_out.rows[i].observationID = NA
        \/ obs_out.rows[i].deploymentID = NA
        \/ obs_out.rows[i].eventStart.k = "na"
        \/ obs_out.rows[i].eventEnd.k = "na"
        \/ obs_out.rows[i].observationLevel = NA
        \/ obs_out.rows[i].observationType = NA

RaisedRequired(table, fields) ==
    /\ pc = "raised"
    /\ err.kind = "required"
    /\ err.table = table
    /\ err.field \in fields
    /\ result = "none"
    /\ NothingOnDisk

\* C1: a table with a missing value in one of its required columns makes
\* process_zip raise the required-field error of that table, and at that
\* moment the run has created no working directory, no output directory and
\* no file.
C1_RequiredFieldFailFast ==
    /\ (dep_out.built /\ DepHasGap) =>
          RaisedRequired("deployments", {"deploymentID", "latitude", "longitude", "deploymentStart", "deploymentEnd"})
    /\ (med_out.built /\ MedHasGap) =>
          RaisedRequired("media", {"mediaID", "deploymentID", "timestamp", "filePath"})
    /\ (obs_out.built /\ ObsHasGap) =>
          RaisedRequired("observations", {"eventStart", "eventEnd"})

\* A deployments table whose only gap is deploymentEnd has stopped the run.
C1_Witness ==
    /\ pc = "raised"
    /\ err.kind = "required"
    /\ err.field = "deploymentEnd"
    /\ \E i \in DOMAIN dep_out.rows : dep_out.rows[i].deploymentEnd.k = "na"

\* C2 as stated: after a failed run output/ holds all four artifacts of the
\* run or none of them.
C2_AllOrNothing == pc = "raised" => NewFiles \in {{}, ArtifactSet}

IsWritePrefix(S) ==
    \/ S = {}
    \/ S = {"deployments.csv"}
    \/ S = {"deployments.csv", "media.csv"}
    \/ S = {"deployments.csv", "media.csv", "observations.csv"}
    \/ S = {"deployments.csv", "media.csv", "observations.csv", "datapackage.json"}

\* C2 amended: the three tables are built and checked in memory before the
\* first write, so a failure while reading, building or checking leaves no
\* file of the run; the files are written in the order deployments.csv,
\* media.csv, observations.csv, datapackage.json without rollback, so after
\* a later failure output/ holds the files written so far.
C2_BuiltBeforeWritten ==
    /\ NewFiles # {} => (dep_out.built /\ med_out.built /\ obs_out.built
                         /\ ~DepHasGap /\ ~MedHasGap /\ ~ObsHasGap)
    /\ (pc = "raised" /\ err.kind \notin {"OSError", "artifacts"}) => NothingOnDisk
    /\ IsWritePrefix(NewFiles)
    /\ (pc = "raised" /\ err.kind = "OSError" /\ err.table \in ArtifactSet) =>
          \A a \in ArtifactSet : fs.files[a] = "new" => a # err.table

\* The write of media.csv failed and deployments.csv stays behind.
C2_Witness ==
    /\ pc = "raised"
    /\ err.kind = "OSError"
    /\ err.table = "media.csv"
    /\ fs.files["deployments.csv"] = "new"
    /\ fs.files["media.csv"] # "new"

FrameIsRaw(frame, added) == \A i \in DOMAIN frame : added \notin DOMAIN frame[i]

\* Spellings of the sentinel that differ in case and surrounding blanks.
SentinelSpellings == {"No CV Result", " NO CV RESULT", "no cv result ", "no cv result",
                      " No CV Result ", "NO CV RESULT", "No CV Result "}
GateFields == {"common_name", "genus", "species", "family", "order"}
Flagged(f) == {i \in DOMAIN inp.images : inp.images[i][f] \in SentinelSpellings}

\* C3: a sentinel in a checked field of the image table makes the run raise
\* at the gate; when the gate raises, only the progress events 1 and 5 were
\* emitted, no frame was normalized, no table was built, nothing was created
\* on disk, and the report shows for each field the first flagged rows in
\* row order, at most 8 of them.
C3_GateBeforeEverything ==
    /\ (pc \notin {"start", "gate"} /\ inp.zip_exists /\ inp.has_images
        /\ \E f \in GateFields : Flagged(f) # {}) => err.kind = "taxonomy"
    /\ err.kind = "taxonomy" =>
        /\ pc = "raised"
        /\ progress = <<1, 5>>
        /\ FrameIsRaw(images, "timestamp_iso")
        /\ FrameIsRaw(deploys, "deploymentStart")
        /\ dep_out = Unbuilt /\ med_out = Unbuilt /\ obs_out = Unbuilt
        /\ NothingOnDisk
        /\ result = "none"
        /\ \A f \in GateFields :
              /\ Len(err.report[f]) <= 8
              /\ Len(err.report[f]) = 8 \/ Len(err.report[f]) = Cardinality(Flagged(f))
              /\ \A n \in DOMAIN err.report[f] :
                    /\ err.report[f][n] \in Flagged(f)
                    /\ \A i \in Flagged(f) : i < err.report[f][n] => \E m \in 1..(n - 1) : err.report[f][m] = i

\* More than 8 rows carry the sentinel in genus and the report shows 8.
C3_Witness ==
    /\ err.kind = "taxonomy"
    /\ Cardinality({i \in DOMAIN inp.images : inp.images[i].genus = " NO CV RESULT"}) > 8
    /\ Len(err.report["genus"]) = 8
    /\ Len(err.report["family"]) = 8

TaxonFields == {"genus", "species", "common_name", "family", "order", "class"}

\* C4 as stated: no run returns when an image row carries the sentinel in
\* genus, species, common_name, family, order or class, and no observation
\* is written with the sentinel as scientificName or vernacularName.
C4_SentinelAlwaysFatal ==
    pc = "done" =>
        /\ \A i \in DOMAIN inp.images : \A f \in TaxonFields : ~IsNoCvResult(inp.images[i][f])
        /\ \A i \in DOMAIN obs_out.rows : ~IsNoCvResult(obs_out.rows[i].scientificName)

\* C5 as stated: no run returns a work_dir for a zip without an images
\* member or without a deployments member.
C5_MissingMemberFatal ==
    (~inp.has_images \/ ~inp.has_deploy) => (pc # "done" /\ result = "none" /\ NewFiles = {})

HasRepeatedMediaID == \E i, j \in DOMAIN med_out.rows : i # j /\ med_out.rows[i].mediaID = med_out.rows[j].mediaID

\* C6: a media table with two equal mediaIDs stops the run in the media
\* stage, with the duplicate-mediaID error when no required value is
\* missing, before anything is created on disk; so the mediaIDs of every run
\* that gets past the media stage are pairwise distinct.
C6_MediaIdUnique ==
    (med_out.built /\ HasRepeatedMediaID) =>
        /\ pc = "raised"
        /\ err.table = "media"
        /\ err.kind \in {"required", "duplicate"}
        /\ ~MedHasGap => err.kind = "duplicate"
        /\ obs_out = Unbuilt
        /\ NothingOnDisk

\* The source ids X, X and X_01: the suffixed X_01 collides with the
\* source X_01.
C6_Witness ==
    /\ pc = "raised"
    /\ err.kind = "duplicate"
    /\ Cardinality({i \in DOMAIN inp.images : inp.images[i].image_id = "X"}) = 2
    /\ Cardinality({i \in DOMAIN inp.images : inp.images[i].image_id = "X_01"}) = 1
    /\ Cardinality({i \in DOMAIN med_out.rows : med_out.rows[i].mediaID = "X_01"}) = 2

\* The source row of a row of a built table.
Src(row) == images[row.idx + 1]
SameIdRows(iid) == {i \in DOMAIN images : images[i].image_id = iid}
TwoDigits(n) == IF n < 10 THEN "0" \o ToString(n) ELSE ToString(n)

\* Sort order inside one duplicate group: timestamp, filename, deployment_id
\* (missing last), then source position.
GroupBefore(a, b) ==
    IF a.timestamp_iso # b.timestamp_iso
    THEN b.timestamp_iso.k = "na" \/ (a.timestamp_iso.k = "utc" /\ a.timestamp_iso.t < b.timestamp_iso.t)
    ELSE IF a.filename # b.filename
    THEN b.filename = NA \/ (a.filename # NA /\ StrLess(a.filename, b.filename))
    ELSE IF a.deployment_id # b.deployment_id
    THEN b.deployment_id = NA \/ (a.deployment_id # NA /\ StrLess(a.deployment_id, b.deployment_id))
    ELSE a.idx < b.idx

\* C7: in the media table a row whose source image_id occurs once keeps it
\* as mediaID; a row whose image_id occurs more than once gets
\* image_id + "_" + NN, NN being its 1-based rank, zero-padded to two
\* digits, among the rows of that image_id sorted by timestamp, filename,
\* deployment_id.
C7_DuplicateSuffix ==
    med_out.built =>
        /\ Len(med_out.rows) = Len(images)
        /\ \A p \in DOMAIN med_out.rows :
              LET row == med_out.rows[p]
                  iid == Src(row).image_id
                  group == SameIdRows(iid)
                  rank == 1 + Cardinality({j \in group : GroupBefore(images[j], Src(row))})
              IN  iid # NA =>
                     row.mediaID = IF Cardinality(group) > 1 THEN iid \o "_" \o TwoDigits(rank) ELSE iid

\* Two rows share the id X, the later one comes first in the source, and
\* the sort gives the earlier one the suffix _01.
C7_Witness ==
    /\ med_out.built
    /\ Len(med_out.rows) = 2
    /\ med_out.rows[1].mediaID = "X_01" /\ med_out.rows[1].idx = 1
    /\ med_out.rows[2].mediaID = "X_02" /\ med_out.rows[2].idx = 0
    /\ pc = "done"

\* C8 as stated: the deploymentIDs of a finished run are pairwise distinct.
C8_DeploymentIdUnique ==
    pc = "done" =>
        \A i, j \in DOMAIN dep_out.rows :
            dep_out.rows[i].deploymentID = dep_out.rows[j].deploymentID => i = j

\* C9 as stated: in a finished run every deploymentID of media and of
\* observations is a deploymentID of the deployments table, and every
\* mediaID of observations is a mediaID of the media table.
C9_ReferentialIntegrity ==
    pc = "done" =>
        LET depIds == {dep_out.rows[i].deploymentID : i \in DOMAIN dep_out.rows}
            medIds == {med_out.rows[i].mediaID : i \in DOMAIN med_out.rows}
        IN  /\ \A i \in DOMAIN med_out.rows : med_out.rows[i].deploymentID \in depIds
            /\ \A i \in DOMAIN obs_out.rows : obs_out.rows[i].deploymentID \in depIds
            /\ \A i \in DOMAIN obs_out.rows : obs_out.rows[i].mediaID \in medIds

OutOfRange(c, lo, hi) == c.k = "num" /\ (c.v < lo \/ c.v > hi)

\* C10: every source row stays in the deployments table; a latitude outside
\* [-90, 90] or a longitude outside [-180, 180] is there as a missing value
\* and the run raises the required-field error of the deployments table,
\* as it does for a missing coordinate, with nothing on disk; the
\* coordinates of a table that passed the check are the source values and
\* lie in range.
C10_CoordinatesNulledNotClamped ==
    dep_out.built =>
        /\ Len(dep_out.rows) = Len(inp.deploys)
        /\ \A i \in DOMAIN dep_out.rows :
              LET src == inp.deploys[dep_out.rows[i].idx + 1]
                  lat == dep_out.rows[i].latitude
                  lon == dep_out.rows[i].longitude
              IN  /\ OutOfRange(src.latitude, -90, 90) => lat.k = "nan"
                  /\ OutOfRange(src.longitude, -180, 180) => lon.k = "nan"
                  /\ (OutOfRange(src.latitude, -90, 90) \/ OutOfRange(src.longitude, -180, 180)
                      \/ src.latitude.k # "num" \/ src.longitude.k # "num")
                        => RaisedRequired("deployments", {"deploymentID", "latitude", "longitude"})
                  /\ lat.k = "num" => (lat = src.latitude /\ lat.v >= -90 /\ lat.v <= 90)
                  /\ lon.k = "num" => (lon = src.longitude /\ lon.v >= -180 /\ lon.v <= 180)

\* The source latitude 95 is missing in the table and the run stopped on
\* latitude.
C10_Witness ==
    /\ pc = "raised"
    /\ err.kind = "required"
    /\ err.field = "latitude"
    /\ \E i \in DOMAIN dep_out.rows :
          /\ inp.deploys[dep_out.rows[i].idx + 1].latitude = Num(95)
          /\ dep_out.rows[i].latitude = NaNCell

\* The common name of a source row as the classification compares it.
CommonKey(src) == IF src.common_name = NA THEN "nan" ELSE Lower(Strip(src.common_name))
SentinelNames == {"human", "human-camera trapper", "blank", "animal", "vehicle", "unknown", "unclassified"}
ObservationTypes == {"animal", "human", "blank", "vehicle", "unknown", "unclassified"}
\* The genus+species composite of a row counts as present when it is a name.
CompositeGiven(row) == row.scientific_name_norm # "" /\ Lower(row.scientific_name_norm) \notin {"nan", "none"}

\* C11: a row whose common name, trimmed and lower-cased, is a sentinel
\* category gets the fixed pair of that category (for human the
\* genus+species composite when there is one, else Homo sapiens), whatever
\* its genus, species, family, order and class; and every observationType
\* is one of animal, human, blank, vehicle, unknown, unclassified.
C11_SentinelBypassesCascade ==
    obs_out.built =>
        \A p \in DOMAIN obs_out.rows :
            LET row == obs_out.rows[p]
                key == CommonKey(inp.images[row.idx + 1])
                got == <<row.observationType, row.scientificName>>
            IN  /\ row.observationType \in ObservationTypes
                /\ key \in {"human", "human-camera trapper"} =>
                      got = <<"human", IF CompositeGiven(Src(row)) THEN Src(row).scientific_name_norm
                                       ELSE "Homo sapiens">>
                /\ key = "blank" => got = <<"blank", "blank">>
                /\ key = "animal" => got = <<"animal", "Animalia">>
                /\ key = "vehicle" => got = <<"vehicle", "blank">>
                /\ key = "unknown" => got = <<"unknown", "blank">>
                /\ key = "unclassified" => got = <<"unclassified", "blank">>

\* A row named " human-camera trapper " without genus and species, but with
\* family, order and class, is written as (human, Homo sapiens).
C11_Witness ==
    /\ pc = "done"
    /\ Len(obs_out.rows) = 1
    /\ inp.images[1].common_name = " human-camera trapper "
    /\ inp.images[1].genus = NA /\ inp.images[1].species = NA
    /\ inp.images[1].family = "Didelphidae" /\ inp.images[1].class = "Mammalia"
    /\ obs_out.rows[1].observationType = "human"
    /\ obs_out.rows[1].scientificName = "Homo sapiens"

\* A cell of a normalized row is given when it is neither missing nor empty.
Given(v) == v # NA /\ Strip(v) # ""

\* C12 as stated: a row without a sentinel common name is an animal whose
\* scientificName is the Genus species composite exactly when genus and
\* species are both non-empty, else the genus, else the family, else the
\* order, else the class, else Animalia.
C12_TaxonomicCascade ==
    obs_out.built =>
        \A p \in DOMAIN obs_out.rows :
            LET row == obs_out.rows[p]
                src == Src(row)
            IN  CommonKey(inp.images[row.idx + 1]) \notin SentinelNames =>
                   /\ row.observationType = "animal"
                   /\ row.scientificName =
                         IF Given(src.genus) /\ Given(src.species) THEN src.genus \o " " \o src.species
                         ELSE IF Given(src.genus) THEN src.genus
                         ELSE IF Given(src.family) THEN Strip(src.family)
                         ELSE IF Given(src.order) THEN Strip(src.order)
                         ELSE IF Given(src.class) THEN Strip(src.class)
                         ELSE "Animalia"

\* Hours to subtract from a local time of a zone outside its transitions;
\* a zone the tz database does not know leaves the time as it is.
HoursEastOfUtc(zone) ==
    CASE zone = "America/Bogota" -> -5
      [] zone = "America/New_York" -> -5
      [] zone = "Asia/Tokyo" -> 9
      [] OTHER -> 0
\* The zone an image is to be localized with: that of the (last) deployment
\* row with the image's deployment_id when the deployments table has a
\* timezone column and such a row exists, else the global hint.
ZoneOfImage(src) ==
    LET hits == {i \in DOMAIN inp.deploys : inp.deploys[i].deployment_id = src.deployment_id}
    IN  IF inp.tz_col /\ hits # {}
        THEN inp.deploys[CHOOSE i \in hits : \A j \in hits : j <= i].timezone
        ELSE inp.timezone_hint
IsNaive(cell) == cell.k \in {"dmy", "iso"}
Ordinary(cell) == IsNaive(cell) /\ cell.t < DstZone.gap

\* C13: the media timestamp of an image, and the event times derived from
\* its interval cells, are the naive local times moved to UTC with the zone
\* of the image's deployment; the global hint is used when the deployments
\* table has no timezone column or no deployment has the image's id.  Two
\* images with the same naive timestamp in zones of different offsets get
\* different instants.
C13_TimezonePerDeployment ==
    /\ med_out.built =>
          \A p \in DOMAIN med_out.rows :
              LET src == inp.images[med_out.rows[p].idx + 1]
              IN  Ordinary(src.timestamp) =>
                     med_out.rows[p].timestamp = Utc(src.timestamp.t - HoursEastOfUtc(ZoneOfImage(src)))
    /\ (obs_out.built /\ inp.evt_cols) =>
          \A p \in DOMAIN obs_out.rows :
              LET src == inp.images[obs_out.rows[p].idx + 1]
              IN  /\ Ordinary(src.start_time) =>
                     obs_out.rows[p].eventStart = Utc(src.start_time.t - HoursEastOfUtc(ZoneOfImage(src)))
                  /\ Ordinary(src.end_time) =>
                     obs_out.rows[p].eventEnd = Utc(src.end_time.t - HoursEastOfUtc(ZoneOfImage(src)))
    /\ med_out.built =>
          \A p, q \in DOMAIN med_out.rows :
              LET a == inp.images[med_out.rows[p].idx + 1]
                  b == inp.images[med_out.rows[q].idx + 1]
              IN  (Ordinary(a.timestamp) /\ a.timestamp.t = b.timestamp.t /\ IsNaive(b.timestamp)
                   /\ HoursEastOfUtc(ZoneOfImage(a)) # HoursEastOfUtc(ZoneOfImage(b)))
                     => med_out.rows[p].timestamp # med_out.rows[q].timestamp

\* Two images taken at the same local hour 110, one in a Tokyo deployment
\* and one in a Bogota deployment, while the global hint is UTC.
C13_Witness ==
    /\ pc = "done"
    /\ inp.tz_col /\ inp.timezone_hint = "UTC"
    /\ inp.deploys[1].timezone = "Asia/Tokyo" /\ inp.deploys[2].timezone = "America/Bogota"
    /\ inp.deploys[2].deployment_id = "D2"
    /\ inp.images[1].timestamp = TsDmy(110) /\ inp.images[2].timestamp = TsDmy(110)
    /\ inp.images[2].deployment_id = "D2"
    /\ \E p, q \in DOMAIN med_out.rows :
          /\ med_out.rows[p].idx = 0 /\ med_out.rows[p].timestamp = Utc(101)
          /\ med_out.rows[q].idx = 1 /\ med_out.rows[q].timestamp = Utc(115)

\* C14 as stated: a naive timestamp that parses gets a UTC instant, also
\* when its local time does not exist or occurs twice in the zone (then the
\* instant of the local time shifted forward) and when the zone is unknown
\* (then the time is taken as UTC); no value that parsed becomes null.
C14_TransitionsShiftForward ==
    \A i \in DOMAIN images :
        ("timestamp_iso" \in DOMAIN images[i] /\ IsNaive(inp.images[i].timestamp))
            => images[i].timestamp_iso.k = "utc"

BlankCell(cell) == cell.k \in {"na", "blank"}

\* C15 as stated: eventStart (eventEnd) is the normalized capture timestamp
\* of the row whenever the source has no start_time (end_time) column or
\* the row's cell in it is empty, whitespace or missing; such a cell never
\* makes the event time null.
C15_EventTimeFallback ==
    obs_out.built =>
        \A p \in DOMAIN obs_out.rows :
            LET row == obs_out.rows[p]
                src == inp.images[row.idx + 1]
            IN  /\ (~inp.evt_cols \/ BlankCell(src.start_time)) => row.eventStart = Src(row).timestamp_iso
                /\ (~inp.evt_cols \/ BlankCell(src.end_time)) => row.eventEnd = Src(row).timestamp_iso

\* C16: validation only observes.  Whatever the validator does (not
\* installed, raising, reporting the package valid or invalid) and whether
\* validate is set or not, the step after the last write moves on to the
\* zip stage and leaves the tables, the files, the error and the result as
\* they are; no run ends with an error of the validation.
C16_ValidationObservational ==
    /\ [](err.kind # "validation")
    /\ [][pc = "validate" =>
            /\ pc' = "zip"
            /\ UNCHANGED <<dep_out, med_out, obs_out, err, fs, result>>]_vars

\* A run with validate set, in which the validator was imported and called,
\* has returned its work_dir.
C16_Witness ==
    /\ pc = "done"
    /\ result = "work_dir"
    /\ inp.validate
    /\ \E n \in DOMAIN progress : progress[n] = 92

HasSentinel == \E i \in DOMAIN inp.images : \E f \in GateFields : inp.images[i][f] \in SentinelSpellings
HasBadTimestamp == \E i \in DOMAIN inp.images : inp.images[i].timestamp.k \in {"na", "blank", "garbage"}
Emitted(p) == \E n \in DOMAIN progress : progress[n] = p

\* C17: no run ends with an exception of the logger or of the progress
\* callback; the error of a run is the one the tables and the file system
\* call for (the taxonomy error exactly for a table with the sentinel, the
\* required-field error for a bad timestamp, else only an I/O error), and a
\* run that returns has called the progress callback at every stage, also
\* after calls that raised.
C17_CallbacksNeverAbort ==
    /\ err.kind # "callback"
    /\ err.kind = "taxonomy" <=> (HasSentinel /\ pc = "raised")
    /\ err.kind = "required" <=> (~HasSentinel /\ HasBadTimestamp /\ pc = "raised")
    /\ (pc = "raised" /\ ~HasSentinel /\ ~HasBadTimestamp) => err.kind = "OSError"
    /\ pc = "done" =>
          /\ result = "work_dir"
          /\ \A p \in {1, 5, 8, 20, 40, 70, 85, 100} : Emitted(p)
          /\ inp.make_zip => Emitted(95)
          /\ \A a \in ArtifactSet : fs.files[a] = "new"

\* Both callbacks raise at every call and the run has returned after
\* calling the progress callback up to 100.
C17_Witness ==
    /\ pc = "done"
    /\ result = "work_dir"
    /\ inp.logger_raises
    /\ inp.progress_raises = ProgressPoints
    /\ progress[Len(progress)] = 100

OnDiskNonEmpty(a) == fs.files[a] \in {"new", "old", "peer"}

\* C18: a work_dir is returned only by the final check, made after all
\* writes, and only when deployments.csv, media.csv, observations.csv and
\* datapackage.json all exist with a size above zero at that moment; when
\* one of them is missing or empty the check raises and nothing is
\* returned, although every write completed.
C18_FinalArtifactCheck ==
    /\ [](result = "work_dir" => pc = "done")
    /\ [][result' # result => pc = "final"]_vars
    /\ [][(pc = "final" /\ pc' # "final") =>
            IF \A a \in ArtifactSet : OnDiskNonEmpty(a)
            THEN pc' = "done" /\ result' = "work_dir"
            ELSE pc' = "raised" /\ err'.kind = "artifacts" /\ result' = "none"]_vars

\* Every write of the run completed, a file was gone at the final check and
\* the run raised.
C18_Witness ==
    /\ pc = "raised"
    /\ err.kind = "artifacts"
    /\ result = "none"
    /\ Emitted(100)

\* C19 as stated: with overwrite=false no file an earlier run left in the
\* working directory is modified, truncated or deleted.
C19_ImmutableWithoutOverwrite ==
    ~inp.overwrite =>
        /\ \A a \in ArtifactSet : InitialFs.files[a] = "old" => fs.files[a] = "old"
        /\ InitialFs.zip = "old" => fs.zip = "old"

\* C20 as stated: of two invocations on different zip files, no step of
\* one creates, writes or deletes a path of the working directory of the
\* other, and no artifact of one holds data of the other.
C20_ConcurrentRunsDisjoint ==
    /\ [](inp.peer.zip_path # inp.zip_path =>
            /\ fs.work_dir # "peer" /\ fs.output # "peer" /\ fs.zip # "peer"
            /\ \A a \in ArtifactSet : fs.files[a] # "peer")
    /\ [][(inp.peer.zip_path # inp.zip_path /\ peer' # peer) => fs' = fs]_vars

\* The progress events of the stages that always run, in order.
StagePercents == <<1, 5, 8, 20, 40, 70, 85>>
\* The first required column of a table that has a missing value; "" if none.
EarliestGap(table) ==
    CASE table = "deployments" ->
            LET k == CHOOSE k \in 0..Len(DepRequired) :
                        /\ k > 0 => DepMissing(dep_out.rows, DepRequired[k]) > 0
                        /\ \A j \in 1..(IF k = 0 THEN Len(DepRequired) ELSE k - 1) :
                               DepMissing(dep_out.rows, DepRequired[j]) = 0
            IN  IF k = 0 THEN "" ELSE DepRequired[k]
      [] table = "media" ->
            LET k == CHOOSE k \in 0..Len(MedRequired) :
                        /\ k > 0 => MedMissing(med_out.rows, MedRequired[k]) > 0
                        /\ \A j \in 1..(IF k = 0 THEN Len(MedRequired) ELSE k - 1) :
                               MedMissing(med_out.rows, MedRequired[j]) = 0
            IN  IF k = 0 THEN "" ELSE MedRequired[k]
      [] OTHER ->
            LET k == CHOOSE k \in 0..Len(ObsRequired) :
                        /\ k > 0 => ObsMissing(obs_out.rows, ObsRequired[k]) > 0
                        /\ \A j \in 1..(IF k = 0 THEN Len(ObsRequired) ELSE k - 1) :
                               ObsMissing(obs_out.rows, ObsRequired[j]) = 0
            IN  IF k = 0 THEN "" ELSE ObsRequired[k]

\* C21: the progress events are strictly increasing, the seven fixed ones
\* being 1, 5, 8, 20, 40, 70, 85 in this order, followed by 92 and 95 only
\* when validation and zipping are requested, and then 100; a stage starts
\* only after the stages before it completed without raising (the zip was
\* read, the gate found nothing, the earlier tables are built and have no
\* gap, the four artifacts were written); and a required-field error is that
\* of the earliest table and of its earliest required column with a gap.
C21_StageOrder ==
    /\ \A n \in DOMAIN progress :
          /\ n <= Len(StagePercents) => progress[n] = StagePercents[n]
          /\ n > Len(StagePercents) => progress[n] \in {92, 95, 100}
          /\ n > 1 => progress[n - 1] < progress[n]
    /\ Emitted(92) => inp.validate
    /\ Emitted(95) => inp.make_zip
    /\ Emitted(100) /\ inp.make_zip => Emitted(95)
    /\ Emitted(5) => inp.zip_exists
    /\ Emitted(8) => SumLen(no_cv_issues(images)) = 0
    /\ Emitted(40) => dep_out.built /\ ~DepHasGap
    /\ Emitted(70) => med_out.built /\ ~MedHasGap
    /\ Emitted(85) => obs_out.built /\ ~ObsHasGap
    /\ (Emitted(92) \/ Emitted(95) \/ Emitted(100)) => \A a \in ArtifactSet : fs.files[a] = "new"
    /\ dep_out.built => Emitted(20)
    /\ med_out.built => Emitted(40)
    /\ obs_out.built => Emitted(70)
    /\ NewFiles # {} => Emitted(85)
    /\ (pc = "raised" /\ err.kind = "required") =>
          /\ err.field = EarliestGap(err.table)
          /\ err.table = "media" => ~DepHasGap
          /\ err.table = "observations" => ~DepHasGap /\ ~MedHasGap

\* Latitude and deploymentEnd are both missing in deployments and the image
\* table has gaps too: the run stopped on latitude of deployments.
C21_Witness ==
    /\ pc = "raised"
    /\ err.kind = "required"
    /\ err.table = "deployments"
    /\ err.field = "latitude"
    /\ \E i \in DOMAIN dep_out.rows : dep_out.rows[i].deploymentEnd.k = "na"
    /\ \E i \in DOMAIN images : images[i].deployment_id = NA
    /\ progress = <<1, 5, 8, 20>>

\* The manifest of this run is on disk.
ManifestWritten == manifest # NoManifest
\* The project name the manifest's name is made from.
ProjectName == IF inp.projects = <<>> THEN "wi-project" ELSE PyStr(inp.projects[1].project_name)
\* A letter a-z or a digit.
IsAlnum(c) == c \in Chars /\ (IsLowerCode(Code[c]) \/ InStr(c, "0123456789"))
WellFormedSlug(s) ==
    \/ s = "wi-project"
    \/ /\ s # ""
       /\ \A i \in 1..Len(s) : IsAlnum(CharAt(s, i)) \/ InStr(CharAt(s, i), "-./")
       /\ IsAlnum(CharAt(s, 1))
       /\ ~InStr(CharAt(s, Len(s)), "-./")

\* C22: the name of the manifest is the slug of the project name; slugifying
\* it again gives the same string; and it is "wi-project" or a non-empty
\* string over [a-z0-9-./] that starts with a letter or a digit and does not
\* end with "-", "." or "/" (so it has no upper-case letter, no space and no
\* accented character).
C22_SlugIdempotentWellFormed ==
    /\ _slugify_name(_slugify_name(ProjectName)) = _slugify_name(ProjectName)
    /\ WellFormedSlug(_slugify_name(ProjectName))
    /\ ManifestWritten =>
          /\ manifest.name = _slugify_name(ProjectName)
          /\ _slugify_name(manifest.name) = manifest.name
          /\ WellFormedSlug(manifest.name)

\* A name with upper-case and accented letters, spaces and removed
\* characters has been written as a slug.
C22_Witness ==
    /\ ManifestWritten
    /\ inp.projects # <<>>
    /\ inp.projects[1].project_name = "Estación #1 (Bogotá)"
    /\ manifest.name = "estacion-1-bogota"

\* Full SPDX identifiers among the names the model's licenses can get.
SpdxIds == {"CC-BY-4.0", "CC-BY-NC-4.0", "CC-BY-SA-4.0", "CC-BY-NC-SA-4.0", "CC0-1.0", "MIT"}
\* The license cell a scope is read from ("" with an empty projects frame).
LicenseCell(scope) ==
    IF inp.projects = <<>> THEN ""
    ELSE IF scope = "data" THEN inp.projects[1].metadata_license
    ELSE inp.projects[1].image_license
LicenseText(scope) == Strip(FillNa(LicenseCell(scope)))

\* C23: the written manifest has exactly two licenses, scope "data" then
\* scope "media"; each name is a full SPDX identifier; a short code of the
\* synonym table gives its full identifier, and an empty text or a text that
\* is neither a short code nor an identifier gives "CC-BY-4.0".
C23_LicensesSpdx ==
    ManifestWritten =>
        /\ Len(manifest.licenses) = 2
        /\ manifest.licenses[1].scope = "data"
        /\ manifest.licenses[2].scope = "media"
        /\ \A n \in 1..2 :
              LET lic == manifest.licenses[n]
                  text == LicenseText(lic.scope)
              IN  /\ lic.name \in SpdxIds
                  /\ text \in DOMAIN license_mapping => lic.name = license_mapping[text]
                  /\ text = "" => lic.name = "CC-BY-4.0"
                  /\ text \notin (DOMAIN license_mapping) \cup SpdxIds => lic.name = "CC-BY-4.0"

\* What C24 says of one table: before is the table handed to the alignment,
\* after the table it returns.
AlignedAs(before, after, schema) ==
    IF schema.readable /\ schema.fields # <<>>
    THEN /\ after.cols = schema.fields
         /\ Len(after.rows) = Len(before.rows)
         /\ \A i \in DOMAIN before.rows :
               /\ after.rows[i].idx = before.rows[i].idx
               /\ DOMAIN after.rows[i] = Range(schema.fields) \cup {"idx"}
               /\ \A f \in Range(schema.fields) :
                     after.rows[i][f] = IF InSeq(f, before.cols) THEN before.rows[i][f] ELSE NullCell(f)
         /\ _align_df_to_local_schema(after, schema) = after
    ELSE after = before

\* C24: in the step that prepares the output, with the three schema files
\* present, each table becomes the table with exactly the fields of its
\* schema in the schema's order, an absent field being a column of nulls, an
\* undeclared column being dropped, the kept cells and the rows and their
\* order being as before, and aligning the result again changes nothing; a
\* table whose schema cannot be read or has no fields is left as it was.
C24_SchemaAlignment ==
    [][(pc = "write" /\ pc' = "artifact_1" /\ inp.schemas) =>
          /\ AlignedAs(dep_out, dep_out', inp.dep_schema)
          /\ AlignedAs(med_out, med_out', inp.med_schema)
          /\ AlignedAs(obs_out, obs_out', inp.obs_schema)]_vars

\* The deployments table has got the column locationID, all null, and the
\* media table has lost deploymentID and got the column favorite.
C24_Witness ==
    /\ pc = "artifact_1"
    /\ inp.schemas
    /\ inp.dep_schema = SchemaFile(dep_schema_fields)
    /\ dep_out.cols = dep_schema_fields
    /\ \A i \in DOMAIN dep_out.rows : dep_out.rows[i].locationID = NA
    /\ inp.med_schema.fields = <<"mediaID", "fileName", "favorite">>
    /\ med_out.cols = <<"mediaID", "fileName", "favorite">>
    /\ \E i \in DOMAIN med_out.rows : med_out.rows[i].fileName = "a.jpg" /\ med_out.rows[i].favorite = NA

\* The columns each table gets whatever the data.
DepAlways == Range(DepRequired)
MedAlways == Range(MedRequired)
ObsAlways == Range(ObsRequired) \cup {"mediaID", "scientificName"}
BboxNames == {"bboxX", "bboxY", "bboxWidth", "bboxHeight"}
\* Some row of the table has a value in column col that is neither null nor
\* empty after trimming.
HasValue(tbl, col) ==
    \E i \in DOMAIN tbl.rows :
        IF col \in BboxNames THEN tbl.rows[i][col].k = "num"
        ELSE tbl.rows[i][col] # NA /\ Strip(PyStr(tbl.rows[i][col])) # ""
Written(a) == fs.files[a] = "new"

BlankOptional(tbl, always) ==
    {tbl.cols[n] : n \in {m \in DOMAIN tbl.cols : tbl.cols[m] \notin always /\ ~HasValue(tbl, tbl.cols[m])}}
Aligned == pc \notin {"start", "gate", "norm", "dep", "med", "obs", "write"}

MissingIn(table, field) ==
    CASE table = "deployments" -> DepMissing(dep_out.rows, field)
      [] table = "media" -> MedMissing(med_out.rows, field)
      [] OTHER -> ObsMissing(obs_out.rows, field)

\* C26: the error of a required-field violation, in any of the three tables,
\* names the field, states the number of rows that miss it and has
\* remediation steps.
C26_RequiredErrorMessage ==
    (pc = "raised" /\ err.kind = "required") =>
        /\ err.field # ""
        /\ err.count = MissingIn(err.table, err.field)
        /\ err.count > 0
        /\ err.remedy

\* The four bounding-box cells of an observations row.
BboxOf(row) == <<row.bboxX, row.bboxY, row.bboxWidth, row.bboxHeight>>
InUnit(n) == 0 <= n /\ n <= UnitLength

\* C27: the box of an observation is four nulls or (x_min, y_min,
\* x_max - x_min, y_max - y_min) of the array in the image's cell; it is four
\* nulls when the cell has no parsable array or a coordinate lies outside
\* [0, 1]; a box that is not null has its four source coordinates in [0, 1],
\* width and height that are not negative, and lies inside the unit square;
\* [0.1, 0.2, 0.5, 0.6] gives (0.1, 0.2, 0.4, 0.4).
C27_BoundingBox ==
    obs_out.built =>
        \A i \in DOMAIN obs_out.rows :
            LET row == obs_out.rows[i]
                cell == Src(row).bounding_boxes
                b == cell.b
            IN  /\ \/ BboxOf(row) = NoBox
                   \/ /\ cell.k = "box"
                      /\ BboxOf(row) = <<Num(b[1]), Num(b[2]), Num(b[3] - b[1]), Num(b[4] - b[2])>>
                /\ (cell.k # "box" \/ \E n \in 1..4 : ~InUnit(b[n])) => BboxOf(row) = NoBox
                /\ BboxOf(row) # NoBox =>
                      /\ \A n \in 1..4 : InUnit(b[n])
                      /\ row.bboxWidth.v >= 0 /\ row.bboxHeight.v >= 0
                      /\ row.bboxX.v + row.bboxWidth.v <= UnitLength
                      /\ row.bboxY.v + row.bboxHeight.v <= UnitLength
                /\ cell = Box(10, 20, 50, 60) => BboxOf(row) = <<Num(10), Num(20), Num(40), Num(40)>>

\* C28: the box of every observations row is the one parsed from the
\* bounding_boxes cell of the source image row that gave the row its mediaID
\* and deploymentID, whatever the order of the source rows.
C28_BboxOfSameImage ==
    obs_out.built =>
        \A i \in DOMAIN obs_out.rows :
            /\ obs_out.rows[i].deploymentID = Src(obs_out.rows[i]).deployment_id
            /\ obs_out.rows[i].mediaID = Src(obs_out.rows[i]).image_id
            /\ BboxOf(obs_out.rows[i]) = _parse_bounding_boxes(Src(obs_out.rows[i]).bounding_boxes)

\* C29: progress 100 is delivered only in runs that return the working
\* directory; no run delivers 100 and raises.
C29_CompletionOnlyOnSuccess ==
    /\ [](Emitted(100) => pc # "raised")
    /\ [][(~Emitted(100) /\ Emitted(100)') => (pc' = "done" /\ result' = "work_dir")]_vars

\* The index labels of the rows of a table are those of the source rows,
\* each one once.
OneRowPerSource(rows, source) ==
    /\ Len(rows) = Len(source)
    /\ \A k \in 1..Len(source) : Cardinality({i \in DOMAIN rows : rows[i].idx = k - 1}) = 1

\* C30: after a successful run the media table and the observations table
\* have one row for every row of the source image table and the deployments
\* table one row for every source deployment row; the i-th observation has
\* the mediaID and the deploymentID of the i-th media row and the
\* observationID "obs_" followed by that mediaID; the observationIDs are
\* pairwise distinct.
C30_NoRecordLostOrDuplicated ==
    pc = "done" =>
        /\ OneRowPerSource(dep_out.rows, inp.deploys)
        /\ OneRowPerSource(med_out.rows, inp.images)
        /\ OneRowPerSource(obs_out.rows, inp.images)
        /\ \A i \in DOMAIN obs_out.rows :
              /\ obs_out.rows[i].idx = med_out.rows[i].idx
              /\ obs_out.rows[i].observationID = "obs_" \o med_out.rows[i].mediaID
              /\ "mediaID" \in DOMAIN obs_out.rows[i] => obs_out.rows[i].mediaID = med_out.rows[i].mediaID
              /\ "deploymentID" \in DOMAIN med_out.rows[i] =>
                    obs_out.rows[i].deploymentID = med_out.rows[i].deploymentID
        /\ \A i, j \in DOMAIN obs_out.rows :
              obs_out.rows[i].observationID = obs_out.rows[j].observationID => i = j

\* A run on three images that share one image_id and two deployments has
\* succeeded.
C30_Witness ==
    /\ pc = "done"
    /\ Len(inp.images) = 3
    /\ \A i \in DOMAIN inp.images : inp.images[i].image_id = "X"
    /\ Len(obs_out.rows) = 3
    /\ Len(dep_out.rows) = 2

====
